---------------------------- MODULE Spec2Model ----------------------------
(***************************************************************************)
(* Costco Spending Insights: the receipt pipeline of src/js/init.js.       *)
(*                                                                         *)
(*   DataProcessor  normalizeItem, normalizeReceipt, mergeReceipts,        *)
(*                  validateReceipt, handleFileSelection/Processing        *)
(*   DataStore      addReceipts, rebuildIndexes, clear                     *)
(*   FilterManager  the setters, setPreset, clearFilters, applyFilters     *)
(*   StatsCalculator calculateTotals                                       *)
(*                                                                         *)
(* Conventions.  Money is an integer number of cents.  A Date is the       *)
(* integer YYYYMMDD (order preserving), and 0 stands for a null Date.      *)
(* Text the code inspects character by character is a sequence of          *)
(* one-character strings; a value whose JavaScript type the code tests is  *)
(* a tagged record [t |-> typeof, v |-> value].                            *)
(***************************************************************************)
EXTENDS Integers, Sequences, FiniteSets, TLC

VARIABLES
    filterState,    \* FilterManager.state
    mirror,         \* a second FilterManager.state, given the same calls in another order
    lastCall,       \* the FilterManager / DataStore call made last
    store,          \* DataStore.state
    proc,           \* DataProcessor.state
    jobs,           \* the handleFileProcessing invocations in flight
    overlay,        \* whether the loading overlay is shown
    ingested,       \* number of file selections handled so far
    receipts,       \* calculateTotals: its argument
    stats,          \* calculateTotals: its result
    item,           \* normalizeItem: its argument
    normalized,     \* normalizeItem: its result
    receiptsArray,  \* mergeReceipts: its argument
    merged          \* mergeReceipts: its result

vars == <<filterState, mirror, lastCall, store, proc, jobs, ingested, overlay,
          receipts, stats, item, normalized, receiptsArray, merged>>

-----------------------------------------------------------------------------
(* JavaScript values *)

Undefined == [t |-> "undefined", v |-> 0]
JNull     == [t |-> "null", v |-> 0]
Num(n)    == [t |-> "number", v |-> n]
Str(s)    == [t |-> "string", v |-> s]
\* A text the code only compares as a whole: one symbol standing for the word.
Tok(w)    == [t |-> "string", v |-> <<w>>]
Arr(a)    == [t |-> "array", v |-> a]

\* Not-a-Number, the result of a failed numeric conversion.
NaN == [nan |-> TRUE, n |-> 0]
Fin(n) == [nan |-> FALSE, n |-> n]

IsDigit(c) == c \in {"0", "1", "2", "3", "4", "5", "6", "7", "8", "9"}
DigitVal(c) ==
    CASE c = "0" -> 0 [] c = "1" -> 1 [] c = "2" -> 2 [] c = "3" -> 3
      [] c = "4" -> 4 [] c = "5" -> 5 [] c = "6" -> 6 [] c = "7" -> 7
      [] c = "8" -> 8 [] c = "9" -> 9
DigitChar(d) == <<"0", "1", "2", "3", "4", "5", "6", "7", "8", "9">>[d + 1]
IsSpace(c) == c \in {" ", "\n", "\t"}

\* if (x) ...: the falsy values are undefined, null, 0, NaN, '' and false.
Truthy(x) ==
    CASE x.t = "undefined" -> FALSE
      [] x.t = "null"      -> FALSE
      [] x.t = "number"    -> x.v # 0
      [] x.t = "string"    -> x.v # <<>>
      [] x.t = "boolean"   -> x.v
      [] OTHER             -> TRUE

\* a || b
Or(a, b) == IF Truthy(a) THEN a ELSE b

Min(a, b) == IF a < b THEN a ELSE b
Abs(n) == IF n < 0 THEN -n ELSE n

\* Math.round(n / d): the nearest integer, a half rounded towards +Infinity.
RoundDiv(n, d) ==
    IF d > 0 THEN (2 * n + d) \div (2 * d)
             ELSE (2 * (-n) + (-d)) \div (2 * (-d))

RECURSIVE DropSpaces(_)
DropSpaces(s) ==
    IF s # <<>> /\ IsSpace(Head(s)) THEN DropSpaces(Tail(s)) ELSE s

RECURSIVE DropSpacesRight(_)
DropSpacesRight(s) ==
    IF s # <<>> /\ IsSpace(s[Len(s)])
    THEN DropSpacesRight(SubSeq(s, 1, Len(s) - 1)) ELSE s

\* String.prototype.trim
Trim(s) == DropSpacesRight(DropSpaces(s))

\* s.replace(/\s+/g, ' ')
RECURSIVE CollapseSpaces(_)
CollapseSpaces(s) ==
    IF s = <<>> THEN <<>>
    ELSE IF IsSpace(Head(s))
         THEN <<" ">> \o CollapseSpaces(DropSpaces(s))
         ELSE <<Head(s)>> \o CollapseSpaces(Tail(s))

\* The leading run of digits of s.
RECURSIVE DigitRun(_)
DigitRun(s) ==
    IF s # <<>> /\ IsDigit(Head(s)) THEN <<Head(s)>> \o DigitRun(Tail(s)) ELSE <<>>

RECURSIVE DigitsValue(_, _)
DigitsValue(s, acc) ==
    IF s = <<>> THEN acc ELSE DigitsValue(Tail(s), 10 * acc + DigitVal(Head(s)))

\* parseFloat(s) on texts that hold whole numbers: leading white space is
\* skipped, a sign and a run of digits are read, the rest is ignored.
ParseFloat(s) ==
    LET body == DropSpaces(s)
        neg  == body # <<>> /\ Head(body) = "-"
        run  == DigitRun(IF neg THEN Tail(body) ELSE body)
    IN  IF run = <<>> THEN NaN
        ELSE Fin(IF neg THEN -DigitsValue(run, 0) ELSE DigitsValue(run, 0))

\* Number(x) for the types a parsed JSON file holds.
ToNumber(x) ==
    CASE x.t = "number"    -> Fin(x.v)
      [] x.t = "null"      -> Fin(0)
      [] x.t = "undefined" -> NaN
      [] x.t = "string"    ->
            LET body == Trim(x.v)
                neg  == body # <<>> /\ Head(body) = "-"
                rest == IF neg THEN Tail(body) ELSE body
            IN  IF body = <<>> THEN Fin(0)
                ELSE IF rest # <<>> /\ DigitRun(rest) = rest
                     THEN Fin(IF neg THEN -DigitsValue(rest, 0) ELSE DigitsValue(rest, 0))
                     ELSE NaN
      [] OTHER             -> NaN

\* Number(x) || 0
NumberOr0(x) == IF ToNumber(x).nan THEN 0 ELSE ToNumber(x).n

\* String(n) for a natural number.
RECURSIVE NatChars(_)
NatChars(n) ==
    IF n < 10 THEN <<DigitChar(n)>> ELSE NatChars(n \div 10) \o <<DigitChar(n % 10)>>

IntChars(n) == IF n < 0 THEN <<"-">> \o NatChars(-n) ELSE NatChars(n)

\* String(x) of an amount of money: 2137 cents print as 21.37, 2130 as 21.3,
\* 2100 as 21.
MoneyChars(c) ==
    LET a == Abs(c)
        whole == NatChars(a \div 100)
        frac == a % 100
        sign == IF c < 0 THEN <<"-">> ELSE <<>>
    IN  sign \o whole \o
        (IF frac = 0 THEN <<>>
         ELSE IF frac % 10 = 0 THEN <<".", DigitChar(frac \div 10)>>
         ELSE <<".", DigitChar(frac \div 10), DigitChar(frac % 10)>>)

StartsWith(s, c) == s # <<>> /\ Head(s) = c

\* s.includes(t)
Includes(s, t) ==
    \E i \in 1..(Len(s) - Len(t) + 1) : SubSeq(s, i, i + Len(t) - 1) = t

Lower(c) ==
    CASE c = "A" -> "a" [] c = "B" -> "b" [] c = "C" -> "c" [] c = "D" -> "d"
      [] OTHER -> c

\* s.toLowerCase()
ToLowerCase(s) == [i \in 1..Len(s) |-> Lower(s[i])]

RECURSIVE SeqSum(_)
SeqSum(s) == IF s = <<>> THEN 0 ELSE Head(s) + SeqSum(Tail(s))

RECURSIVE Flatten(_)
Flatten(ss) == IF ss = <<>> THEN <<>> ELSE Head(ss) \o Flatten(Tail(ss))

Range(s) == {s[i] : i \in 1..Len(s)}

\* Object.keys of an object whose keys are whole numbers: in ascending order.
RECURSIVE Ascending(_)
Ascending(S) ==
    IF S = {} THEN <<>>
    ELSE LET least == CHOOSE x \in S : \A y \in S : x <= y
         IN  <<least>> \o Ascending(S \ {least})

\* The sequences over S of length at most n.
SeqsUpTo(S, n) == UNION {[1..k -> S] : k \in 0..n}

-----------------------------------------------------------------------------
(* DataProcessor: the Normalizer *)

\* JavaScript's property read: a missing property reads as undefined.
Get(obj, field) == IF field \in DOMAIN obj THEN obj[field] ELSE Undefined

MaxTextLen == 500

\* cleanText(text)
CleanText(text) ==
    IF ~Truthy(text) \/ text.t # "string" THEN <<>>
    ELSE LET t == CollapseSpaces(Trim(text.v))
         IN  SubSeq(t, 1, Min(Len(t), MaxTextLen))

Pad2(n) == <<DigitChar(n \div 10), DigitChar(n % 10)>>

\* A date text is the sequence <<year, month, day>>; its characters are
\* YYYY-MM-DD.
DateChars(d) ==
    <<DigitChar(d[1] \div 1000), DigitChar((d[1] \div 100) % 10),
      DigitChar((d[1] \div 10) % 10), DigitChar(d[1] % 10), "-">>
    \o Pad2(d[2]) \o <<"-">> \o Pad2(d[3])

IsLeap(y) == (y % 4 = 0 /\ y % 100 # 0) \/ y % 400 = 0

DaysInMonth(y, m) ==
    IF m = 2 THEN (IF IsLeap(y) THEN 29 ELSE 28)
    ELSE IF m \in {4, 6, 9, 11} THEN 30 ELSE 31

\* parseDate(dateStr): null (0) for a missing or unparseable text.
ParseDate(dateStr) ==
    IF ~Truthy(dateStr) THEN 0
    ELSE LET d == dateStr.v
         IN  IF /\ d[2] \in 1..12
                /\ d[3] \in 1..DaysInMonth(d[1], d[2])
             THEN d[1] * 10000 + d[2] * 100 + d[3]
             ELSE 0

\* `${x}` for the raw fields generateReceiptId prints.
DateText(x) == IF Truthy(x) THEN DateChars(x.v) ELSE <<>>
NumText(x) == IF Truthy(x) THEN IntChars(x.v) ELSE <<>>
TotalText(x) ==
    IF ~Truthy(x) THEN <<>>
    ELSE IF x.t = "number" THEN MoneyChars(x.v) ELSE x.v

\* btoa(s).substring(0, 16): sixteen base64 characters carry exactly the first
\* twelve characters of s, so the prefix is named by those characters.
Btoa16(s) == SubSeq(s, 1, Min(Len(s), 12))

\* generateReceiptId(receipt, index)
GenerateReceiptId(receipt, index) ==
    LET date      == DateText(Get(receipt, "transactionDate"))
        warehouse == NumText(Get(receipt, "warehouseNumber"))
        transNum  == NumText(Get(receipt, "transactionNumber"))
        total     == TotalText(Get(receipt, "total"))
    IN  IF transNum # <<>> /\ warehouse # <<>> /\ date # <<>>
        THEN warehouse \o <<"-">> \o date \o <<"-">> \o transNum
        ELSE <<"receipt-">> \o
             Btoa16(date \o <<"-">> \o warehouse \o <<"-">> \o total
                    \o <<"-">> \o NatChars(index))

\* The unit of a raw item: a number as it is, a text through parseFloat with
\* 1 for a unit label such as EA, anything else 0.
ItemUnit(rawItem) ==
    LET u == Get(rawItem, "unit")
    IN  IF u.t = "number" THEN u.v
        ELSE IF u.t = "string"
             THEN (IF ParseFloat(u.v).nan THEN 1 ELSE ParseFloat(u.v).n)
             ELSE 0

\* hasItemReference as normalizeItem computes it.
HasItemReference(actualName, description01, rawItem) ==
    LET french == Get(rawItem, "frenchItemDescription1")
    IN  \/ StartsWith(actualName, "/")
        \/ StartsWith(description01, "/")
        \/ (Truthy(french) /\ StartsWith(french.v, "/"))

\* isReturn as normalizeItem computes it.
IsReturn(amount, unit, hasItemReference) ==
    amount < 0 /\ unit < 0 /\ ~hasItemReference

\* IsDiscount with every negative amount taken for a discount.
IsDiscountAnyNegative(amount, unit, hasItemReference) == amount < 0

\* isDiscount as normalizeItem computes it.
IsDiscount(amount, unit, hasItemReference) ==
    amount < 0 /\ (hasItemReference
                   \/ (~IsReturn(amount, unit, hasItemReference) /\ unit >= 0))

\* s.match(/\/(\d+)/): the digits after the first slash that a digit follows;
\* null when there is none.
RefMatch(s) ==
    LET hits == {i \in 1..(Len(s) - 1) : s[i] = "/" /\ IsDigit(s[i + 1])}
    IN  IF hits = {} THEN JNull
        ELSE LET first == CHOOSE i \in hits : \A j \in hits : i <= j
             IN  Str(DigitRun(SubSeq(s, first + 1, Len(s))))

\* normalizeItem(item).  The pass-through fields no rule reads (tax flag, fuel
\* fields, image, catalogue id) are left out.
NormalizeItem(rawItem) ==
    LET Classified(unit, itemNumber, amount, desc01, desc02, actualName,
                   priceAmount, french, hasRef) ==
            LET Named(isDiscount, appliesTo) ==
                    [itemNumber           |-> itemNumber,
                     amount               |-> amount,
                     unit                 |-> unit,
                     itemDescription01    |-> desc01,
                     itemDescription02    |-> desc02,
                     itemActualName       |-> actualName,
                     normalizedName       |->
                         IF actualName # <<>> /\ ~StartsWith(actualName, "/")
                         THEN actualName
                         ELSE IF desc01 # <<>> /\ ~StartsWith(desc01, "/")
                         THEN desc01 \o (IF desc02 # <<>> THEN <<" ">> \o desc02
                                         ELSE <<>>)
                         ELSE IF isDiscount /\ Truthy(appliesTo)
                         THEN <<"Discount on Item ">> \o appliesTo.v
                         ELSE <<"Item ">> \o itemNumber,
                     unitPrice            |->
                         IF unit # 0 THEN RoundDiv(amount, unit)
                         ELSE IF Truthy(priceAmount) THEN NumberOr0(priceAmount)
                         ELSE amount,
                     isDiscount           |-> isDiscount,
                     itemDepartmentNumber |->
                         Or(Get(rawItem, "itemDepartmentNumber"), JNull),
                     itemUnitPriceAmount  |-> priceAmount,
                     discountAppliesTo    |-> appliesTo]
                Referenced(isDiscount) ==
                    Named(isDiscount,
                          IF isDiscount /\ hasRef
                          THEN RefMatch(IF actualName # <<>> THEN actualName
                                        ELSE IF desc01 # <<>> THEN desc01
                                        ELSE IF Truthy(french) THEN french.v
                                        ELSE <<>>)
                          ELSE Undefined)
            IN  Referenced(IsDiscount(amount, unit, hasRef))
        Cleaned(unit, rawNumber, amount, desc01, desc02, actualName) ==
            Classified(unit,
                       IF rawNumber.t = "number" THEN IntChars(rawNumber.v)
                       ELSE rawNumber.v,
                       amount, desc01, desc02, actualName,
                       Or(Get(rawItem, "itemUnitPriceAmount"), JNull),
                       Get(rawItem, "frenchItemDescription1"),
                       HasItemReference(actualName, desc01, rawItem))
    IN  Cleaned(ItemUnit(rawItem),
                Or(Get(rawItem, "itemNumber"), Str(<<>>)),
                NumberOr0(Get(rawItem, "amount")),
                CleanText(Or(Get(rawItem, "itemDescription01"), Str(<<>>))),
                CleanText(Or(Get(rawItem, "itemDescription02"), Str(<<>>))),
                CleanText(Or(Get(rawItem, "itemActualName"), Str(<<>>))))

IsOnlineOrder(receipt) ==
    \/ Get(receipt, "channel") = Tok("online")
    \/ Get(receipt, "documentType") = Tok("ONLINE")
    \/ Get(receipt, "documentType") = Tok("OnlineReceipts")

\* normalizeReceipt(receipt, index, sourceFile).  processedAt (the clock) and
\* the pass-through address, tender, coupon and sub-tax fields are left out.
NormalizeReceipt(receipt, index, sourceFile) ==
    LET Built(rawType, items, given) ==
            [id                  |-> GenerateReceiptId(receipt, index),
             sourceFile          |-> sourceFile,
             transactionDate     |-> Or(Get(receipt, "transactionDate"), JNull),
             transactionDateTime |->
                 ParseDate(Or(Get(receipt, "transactionDateISO"),
                              Or(Get(receipt, "transactionDateTime"),
                                 Get(receipt, "transactionDate")))),
             transactionType     |-> IF rawType = Tok("Delivered") THEN Tok("Sales")
                                     ELSE rawType,
             warehouseNumber     |-> NumberOr0(Get(receipt, "warehouseNumber")),
             warehouseName       |->
                 IF IsOnlineOrder(receipt) THEN <<"Online">>
                 ELSE CleanText(Or(Get(receipt, "warehouseName"), Str(<<>>))),
             total               |-> NumberOr0(Get(receipt, "total")),
             subTotal            |-> NumberOr0(Get(receipt, "subTotal")),
             taxes               |-> NumberOr0(Get(receipt, "taxes")),
             instantSavings      |->
                 IF /\ IsOnlineOrder(receipt)
                    /\ Truthy(Get(receipt, "orderDiscountAmount"))
                 THEN NumberOr0(Get(receipt, "orderDiscountAmount"))
                 ELSE SeqSum([i \in 1..Len(items) |->
                                 IF items[i].isDiscount /\ items[i].amount < 0
                                 THEN Abs(items[i].amount) ELSE 0]),
             itemArray           |-> items,
             membershipNumber    |->
                 IF Truthy(Get(receipt, "membershipNumber"))
                 THEN Str(IF Get(receipt, "membershipNumber").t = "number"
                          THEN IntChars(Get(receipt, "membershipNumber").v)
                          ELSE Get(receipt, "membershipNumber").v)
                 ELSE JNull,
             receiptType         |-> Or(Get(receipt, "receiptType"), JNull),
             documentType        |-> Or(Get(receipt, "documentType"), JNull),
             channel             |-> Or(Get(receipt, "channel"), JNull),
             transactionNumber   |-> Or(Get(receipt, "transactionNumber"), JNull),
             totalItemCount      |-> IF Truthy(given) THEN given.v ELSE Len(items),
             _original           |-> receipt]
        Items(rawItems) ==
            IF rawItems.t = "array"
            THEN [i \in 1..Len(rawItems.v) |-> NormalizeItem(rawItems.v[i])]
            ELSE <<>>
    IN  Built(Or(Get(receipt, "transactionType"), Tok("Sales")),
              Items(Get(receipt, "itemArray")),
              Get(receipt, "totalItemCount"))

-----------------------------------------------------------------------------
(* DataProcessor: the Deduplicator *)

\* DedupKey with the barcode forgotten.
DedupKeyIdOnly(receipt) == Str(receipt.id)

\* receipt._original?.transactionBarcode || receipt.id
DedupKey(receipt) ==
    Or(Get(Get(receipt, "_original"), "transactionBarcode"), Str(receipt.id))

\* MoreComplete with the first receipt seen always kept.
MoreCompleteNever(receipt, existing) == FALSE

\* The test that lets a duplicate replace the receipt already kept.
MoreComplete(receipt, existing) ==
    Len(receipt.itemArray) > Len(existing.itemArray)

\* One turn of the inner forEach of mergeReceipts.  receiptMap is a Map: its
\* entries keep the order in which their keys were first set.
MergeStep(receiptMap, receipt) ==
    LET key == DedupKey(receipt)
        at  == {i \in 1..Len(receiptMap) : receiptMap[i].key = key}
    IN  IF at # {}
        THEN LET i == CHOOSE i \in at : TRUE
             IN  IF MoreComplete(receipt, receiptMap[i].value)
                 THEN [receiptMap EXCEPT ![i].value = receipt]
                 ELSE receiptMap
        ELSE Append(receiptMap, [key |-> key, value |-> receipt])

RECURSIVE MergeFold(_, _)
MergeFold(receiptMap, rs) ==
    IF rs = <<>> THEN receiptMap ELSE MergeFold(MergeStep(receiptMap, Head(rs)), Tail(rs))

\* mergeReceipts(receiptsArray): Array.from(receiptMap.values())
MergeReceipts(arrays) ==
    LET Values(receiptMap) == [i \in 1..Len(receiptMap) |-> receiptMap[i].value]
    IN  Values(MergeFold(<<>>, Flatten(arrays)))

-----------------------------------------------------------------------------
(* StatsCalculator *)

\* IsRefund with the sign of the total forgotten.
IsRefundByTypeOnly(receipt) ==
    \/ Get(receipt, "transactionType") = Tok("Refund")
    \/ Get(receipt, "transactionType") = Tok("Return")
    \/ Get(receipt, "transactionType") = Tok("Returned")

\* The refund test calculateTotals applies to a receipt.
IsRefund(receipt) ==
    \/ Get(receipt, "transactionType") = Tok("Refund")
    \/ Get(receipt, "transactionType") = Tok("Return")
    \/ Get(receipt, "transactionType") = Tok("Returned")
    \/ receipt.total < 0

\* receipt.channel || receipt.receiptType || 'warehouse'
ChannelOf(receipt) ==
    Or(Get(receipt, "channel"), Or(Get(receipt, "receiptType"), Tok("warehouse")))

\* Number(item.quantity) || 1
QuantityOf(it) ==
    LET q == ToNumber(Get(it, "quantity"))
    IN  IF q.nan \/ q.n = 0 THEN 1 ELSE q.n

\* One turn of the inner forEach of calculateTotals: an item of a receipt.
TotalsItemStep(acc, it, isRefund) ==
    LET qty     == QuantityOf(it)
        itemNum == it.itemNumber
        seen    == itemNum # <<>>
        current == IF itemNum \in DOMAIN acc.itemNetQuantities
                   THEN acc.itemNetQuantities[itemNum] ELSE 0
        net     == IF isRefund THEN current - Abs(qty) ELSE current + qty
    IN  [acc EXCEPT
            !.refundItemCount = IF isRefund THEN @ + Abs(qty) ELSE @,
            !.totalPurchaseCount = IF isRefund THEN @ ELSE @ + qty,
            !.uniqueReturnedItemsSet =
                IF isRefund /\ seen THEN @ \cup {itemNum} ELSE @,
            !.uniqueItemsSet = IF seen THEN @ \cup {itemNum} ELSE @,
            !.itemNetQuantities =
                IF seen
                THEN [k \in DOMAIN @ \cup {itemNum} |-> IF k = itemNum THEN net ELSE @[k]]
                ELSE @]

RECURSIVE TotalsItems(_, _, _)
TotalsItems(acc, items, isRefund) ==
    IF items = <<>> THEN acc
    ELSE TotalsItems(TotalsItemStep(acc, Head(items), isRefund), Tail(items), isRefund)

\* One turn of the outer forEach of calculateTotals: a receipt.
TotalsReceiptStep(acc, receipt) ==
    LET isRefund == IsRefund(receipt)
        channel  == ChannelOf(receipt)
        online   == channel = Tok("online")
                    \/ Get(receipt, "documentType") = Tok("OnlineReceipts")
        a1 == [acc EXCEPT
                !.onlineOrders = IF online THEN @ + 1 ELSE @,
                !.warehouseVisits =
                    IF ~online /\ channel # Tok("gas_station") THEN @ + 1 ELSE @,
                !.refundReceipts = IF isRefund THEN @ + 1 ELSE @,
                !.refundAmount = IF isRefund THEN @ + Abs(receipt.total) ELSE @,
                !.refundSpent = IF isRefund THEN @ - Abs(receipt.total) ELSE @,
                !.salesReceipts = IF isRefund THEN @ ELSE @ + 1,
                !.grossSpent = IF isRefund THEN @ ELSE @ + receipt.total,
                !.totalTaxes = IF isRefund THEN @ - Abs(receipt.taxes)
                               ELSE @ + receipt.taxes,
                !.totalSavings = IF isRefund THEN @ - Abs(receipt.instantSavings)
                                 ELSE @ + receipt.instantSavings]
    IN  TotalsItems(a1, receipt.itemArray, isRefund)

RECURSIVE TotalsFold(_, _)
TotalsFold(acc, rs) ==
    IF rs = <<>> THEN acc ELSE TotalsFold(TotalsReceiptStep(acc, Head(rs)), Tail(rs))

\* The object calculateTotals returns for an empty receipt set.
EmptyTotals ==
    [totalSpent |-> 0, netSpent |-> 0, grossSpent |-> 0, totalItems |-> 0,
     totalReceipts |-> 0, warehouseVisits |-> 0, onlineOrders |-> 0,
     totalTaxes |-> 0, totalSavings |-> 0, salesReceipts |-> 0,
     refundReceipts |-> 0, refundAmount |-> 0, refundItemCount |-> 0,
     totalPurchaseCount |-> 0, uniqueItems |-> 0, netUniqueItems |-> 0,
     avgPricePerItem |-> 0]

\* Math.round(x * 100) / 100 of an amount of n / d cents.
Round2(n, d) == RoundDiv(n, d)

\* calculateTotals(receipts)
CalculateTotals(rs) ==
    LET Result(acc) ==
            [totalReceipts       |-> acc.totalReceipts,
             warehouseVisits     |-> acc.warehouseVisits,
             onlineOrders        |-> acc.onlineOrders,
             totalTaxes          |-> Round2(acc.totalTaxes, 1),
             totalSavings        |-> Round2(acc.totalSavings, 1),
             salesReceipts       |-> acc.salesReceipts,
             refundReceipts      |-> acc.refundReceipts,
             refundAmount        |-> Round2(acc.refundAmount, 1),
             refundItemCount     |-> acc.refundItemCount,
             uniqueReturnedItems |-> Cardinality(acc.uniqueReturnedItemsSet),
             grossSpent          |-> Round2(acc.grossSpent, 1),
             refundSpent         |-> acc.refundSpent,
             totalPurchaseCount  |-> acc.totalPurchaseCount,
             netSpent            |-> Round2(acc.grossSpent + acc.refundSpent, 1),
             totalSpent          |-> Round2(acc.grossSpent + acc.refundSpent, 1),
             uniqueItems         |-> Cardinality(acc.uniqueItemsSet),
             netUniqueItems      |->
                 Cardinality({k \in DOMAIN acc.itemNetQuantities :
                                 acc.itemNetQuantities[k] > 0}),
             avgPricePerItem     |->
                 IF acc.totalPurchaseCount > 0
                 THEN Round2(acc.grossSpent, acc.totalPurchaseCount) ELSE 0]
    IN  IF rs = <<>> THEN EmptyTotals
        ELSE Result(TotalsFold(
                 [totalReceipts |-> Len(rs), warehouseVisits |-> 0,
                  onlineOrders |-> 0, totalTaxes |-> 0, totalSavings |-> 0,
                  salesReceipts |-> 0, refundReceipts |-> 0, refundAmount |-> 0,
                  refundItemCount |-> 0, grossSpent |-> 0, refundSpent |-> 0,
                  totalPurchaseCount |-> 0, uniqueItemsSet |-> {},
                  uniqueReturnedItemsSet |-> {}, itemNetQuantities |-> <<>>], rs))

\* The yearly cap of the reward, in dollars.
RewardCap == 1250

\* Number(x) || 1 for the month and the day of the cycle start.
NumberOr1(x) == IF NumberOr0(x) = 0 THEN 1 ELSE NumberOr0(x)

\* new Date(year, month - 1, day) as a calendar day: a day past the end of
\* the month runs over into the next month.
LocalDate(year, month, day) ==
    IF day <= DaysInMonth(year, month)
    THEN year * 10000 + month * 100 + day
    ELSE year * 10000 + (month + 1) * 100 + (day - DaysInMonth(year, month))

\* getCycleYear with the day of the cycle start left to the old cycle.
GetCycleYearAfterStart(date, cycleStartMonth, cycleStartDay) ==
    IF date = 0 THEN 0
    ELSE IF date > LocalDate(date \div 10000, cycleStartMonth, cycleStartDay)
    THEN date \div 10000
    ELSE date \div 10000 - 1

\* getCycleYear(date): the year of the cycle start the date belongs to, null
\* (0) for a date that is none.
GetCycleYear(date, cycleStartMonth, cycleStartDay) ==
    IF date = 0 THEN 0
    ELSE IF date >= LocalDate(date \div 10000, cycleStartMonth, cycleStartDay)
    THEN date \div 10000
    ELSE date \div 10000 - 1

\* The words of a receipt's channel, receiptType and documentType that
\* contain "travel" once in lower case.
TravelWords == {"travel", "Travel", "Costco Travel", "TravelReceipts"}

MentionsTravel(text) == \E i \in 1..Len(text.v) : text.v[i] \in TravelWords

\* isGas || isTravel: the receipts that earn no reward.
IsGasOrTravel(receipt) ==
    LET channel == Or(receipt.channel, Or(receipt.receiptType, Tok("warehouse")))
        docType == Or(receipt.documentType, Str(<<>>))
    IN  \/ channel = Tok("gas_station")
        \/ channel = Tok("Gas Station")
        \/ docType = Tok("FuelReceipts")
        \/ receipt.receiptType = Tok("Gas Station")
        \/ MentionsTravel(docType)
        \/ (Truthy(receipt.receiptType) /\ MentionsTravel(receipt.receiptType))
        \/ MentionsTravel(channel)

\* The qualifying subtotal of a receipt: the amounts of its items that are no
\* discount, of no excluded department, and not negative.
QualifyingSubtotal(receipt, excludedDepartments) ==
    SeqSum([i \in 1..Len(receipt.itemArray) |->
              IF \/ receipt.itemArray[i].isDiscount
                 \/ Or(receipt.itemArray[i].itemDepartmentNumber, Num(0))
                       \in excludedDepartments
                 \/ receipt.itemArray[i].amount < 0
              THEN 0 ELSE receipt.itemArray[i].amount])

\* The reward with no yearly cap.
RewardUncapped(subtotal) == subtotal * 2

\* Math.min(subtotal * 0.02, 1250): the subtotal in cents, the reward in
\* hundredths of a cent.
Reward(subtotal) == Min(subtotal * 2, RewardCap * 10000)

\* calculateExecutiveRewards(receipts, options).  The receipts are normalized
\* receipts: their itemArray is an array.
CalculateExecutiveRewards(rs, options) ==
    LET ByYear(cycleStartMonth, cycleStartDay, excludedDepartments) ==
            LET CycleYear(receipt) ==
                    IF IsGasOrTravel(receipt) \/ receipt.total < 0 THEN 0
                    ELSE GetCycleYear(receipt.transactionDateTime,
                                      cycleStartMonth, cycleStartDay)
                Yearly(years) ==
                    [year \in years |->
                        [subtotal |->
                            SeqSum([i \in 1..Len(rs) |->
                                      IF CycleYear(rs[i]) = year
                                      THEN QualifyingSubtotal(rs[i], excludedDepartments)
                                      ELSE 0])]]
                Rewarded(byYear) ==
                    [year \in DOMAIN byYear |->
                        [subtotal |-> byYear[year].subtotal,
                         reward   |-> Reward(byYear[year].subtotal)]]
                Result(byYear, years) ==
                    [byYear      |-> byYear,
                     totalReward |->
                         SeqSum([i \in 1..Len(years) |-> byYear[years[i]].reward]),
                     cycleStart  |-> [month |-> cycleStartMonth,
                                      day |-> cycleStartDay]]
                Keys(byYear) ==
                    Result(byYear, Ascending(DOMAIN byYear))
            IN  Keys(Rewarded(Yearly({CycleYear(rs[i]) : i \in 1..Len(rs)} \ {0})))
    IN  ByYear(NumberOr1(Get(options, "cycleStartMonth")),
               NumberOr1(Get(options, "cycleStartDay")),
               {Num(75), Num(93)}
                 \cup (IF Get(options, "additionalExcludedDepartments").t = "array"
                       THEN Range(options.additionalExcludedDepartments.v)
                       ELSE {}))

\* getReceiptDate(receipt): the first of the receipt's date fields, its own
\* and those of its raw receipt, that is a date; null (0) when none is.
GetReceiptDate(receipt) ==
    LET candidates ==
            <<receipt.transactionDateTime,
              ParseDate(Get(receipt, "transactionDateISO")),
              ParseDate(Get(receipt, "transactionDate")),
              ParseDate(Get(Get(receipt, "_original"), "transactionDateTime")),
              ParseDate(Get(Get(receipt, "_original"), "transactionDateISO")),
              ParseDate(Get(Get(receipt, "_original"), "transactionDate"))>>
        dated == SelectSeq(candidates, LAMBDA d : d # 0)
    IN  IF dated = <<>> THEN 0 ELSE Head(dated)

\* getRawDateString(receipt): the first date field that is a non-empty text.
GetRawDateString(receipt) ==
    LET candidates ==
            <<Get(receipt, "transactionDateISO"), Get(receipt, "transactionDate"),
              Get(Get(receipt, "_original"), "transactionDateTime"),
              Get(Get(receipt, "_original"), "transactionDateISO"),
              Get(Get(receipt, "_original"), "transactionDate")>>
        texts == SelectSeq(candidates, LAMBDA c : c.t = "string" /\ c.v # <<>>)
    IN  IF texts = <<>> THEN JNull ELSE Head(texts)

\* getWarehouseStats: isOnline, isGas and the key of the group of a receipt.
StatsIsOnline(receipt) ==
    \/ receipt.channel = Tok("online")
    \/ receipt.documentType = Tok("ONLINE")
    \/ receipt.documentType = Tok("OnlineReceipts")
    \/ receipt.warehouseName = <<"Online">>

StatsIsGas(receipt) ==
    \/ receipt.receiptType = Tok("Gas Station")
    \/ receipt.documentType = Tok("FuelReceipts")

WarehouseKey(receipt) ==
    IF StatsIsOnline(receipt) THEN Tok("ONLINE") ELSE Num(receipt.warehouseNumber)

\* tripDates.size || (isOnline ? 0 : receiptCount)
TripCount(tripDates, isOnline, receiptCount) ==
    IF Cardinality(tripDates) # 0 THEN Cardinality(tripDates)
    ELSE IF isOnline THEN 0 ELSE receiptCount

\* Array.prototype.sort by totalSpent, largest first; the sort is stable.
SortByTotalSpent(list) ==
    LET Before(i, j) ==
            \/ list[i].totalSpent > list[j].totalSpent
            \/ list[i].totalSpent = list[j].totalSpent /\ i < j
        Place(i) == Cardinality({j \in 1..Len(list) : Before(j, i)}) + 1
    IN  [p \in 1..Len(list) |-> list[CHOOSE i \in 1..Len(list) : Place(i) = p]]

\* getWarehouseStats(receipts)
GetWarehouseStats(rs) ==
    LET Group(key, members) ==
            LET Summary(isOnline, receiptCount, totalSpent, tripDates, visits,
                        raws) ==
                    [warehouseNumber |-> key,
                     isOnline        |-> isOnline,
                     totalSpent      |-> totalSpent,
                     tripCount       |-> TripCount(tripDates, isOnline, receiptCount),
                     avgPerTrip      |->
                         RoundDiv(totalSpent,
                                  IF TripCount(tripDates, isOnline, receiptCount) = 0
                                  THEN 1
                                  ELSE TripCount(tripDates, isOnline, receiptCount)),
                     receiptCount    |-> receiptCount,
                     lastVisit       |->
                         IF visits # {}
                         THEN Num(CHOOSE d \in visits : \A e \in visits : e <= d)
                         ELSE IF raws # <<>> THEN raws[Len(raws)] ELSE JNull]
            IN  Summary(key = Tok("ONLINE"),
                        Len(members),
                        SeqSum([i \in 1..Len(members) |-> members[i].total]),
                        {GetReceiptDate(members[i]) :
                            i \in {j \in 1..Len(members) :
                                     /\ key # Tok("ONLINE")
                                     /\ ~StatsIsGas(members[j])
                                     /\ GetReceiptDate(members[j]) # 0}},
                        {GetReceiptDate(members[i]) :
                            i \in {j \in 1..Len(members) :
                                     /\ key # Tok("ONLINE")
                                     /\ GetReceiptDate(members[j]) # 0}},
                        SelectSeq([i \in 1..Len(members) |->
                                      IF GetReceiptDate(members[i]) # 0 THEN JNull
                                      ELSE GetRawDateString(members[i])],
                                  Truthy))
        Listed(keys) ==
            SortByTotalSpent(
                [k \in 1..Len(keys) |->
                    Group(keys[k],
                          SelectSeq(rs, LAMBDA r : WarehouseKey(r) = keys[k]))])
        Result(warehouseList) ==
            [uniqueWarehouses |->
                 Cardinality({i \in 1..Len(warehouseList) :
                                 ~warehouseList[i].isOnline}),
             warehouseList    |-> warehouseList]
        FirstSeen(grouped) ==
            SelectSeq([i \in 1..Len(grouped) |->
                          IF \E j \in 1..(i - 1) :
                                WarehouseKey(grouped[j]) = WarehouseKey(grouped[i])
                          THEN JNull ELSE WarehouseKey(grouped[i])],
                      LAMBDA k : k # JNull)
    IN  Result(Listed(FirstSeen(SelectSeq(rs, LAMBDA r : Truthy(WarehouseKey(r))))))

\* getMonthlySpending(receipts): one entry for each month that has a dated
\* receipt, sorted by month; the month 2024-03 is the number 202403.
GetMonthlySpending(rs) ==
    LET dated == SelectSeq(rs, LAMBDA r : r.transactionDateTime # 0)
        Entry(month, members) ==
            [month   |-> month,
             total   |-> SeqSum([i \in 1..Len(members) |-> members[i].total]),
             count   |-> Len(members),
             items   |-> SeqSum([i \in 1..Len(members) |-> members[i].totalItemCount]),
             savings |->
                 SeqSum([i \in 1..Len(members) |->
                            IF IsRefund(members[i])
                            THEN 0 - Abs(members[i].instantSavings)
                            ELSE members[i].instantSavings]),
             taxes   |->
                 SeqSum([i \in 1..Len(members) |->
                            IF IsRefund(members[i]) THEN 0 - Abs(members[i].taxes)
                            ELSE members[i].taxes])]
        Listed(months) ==
            [k \in 1..Len(months) |->
                Entry(months[k],
                      SelectSeq(dated,
                                LAMBDA r : r.transactionDateTime \div 100 = months[k]))]
    IN  Listed(Ascending({dated[i].transactionDateTime \div 100 : i \in 1..Len(dated)}))

-----------------------------------------------------------------------------
(* FilterManager *)

\* SetDateRange with the preset left as it was.
SetDateRangeKeepsPreset(state, start, end) ==
    [state EXCEPT !.dateRange = [start |-> start, end |-> end]]

\* setDateRange(start, end)
SetDateRange(state, start, end) ==
    [state EXCEPT !.dateRange = [start |-> start, end |-> end],
                  !.currentPreset = "custom"]

\* setWarehouse(warehouseNumber)
SetWarehouse(state, warehouseNumber) ==
    [state EXCEPT !.warehouse = warehouseNumber]

\* SetChannel with the warehouse selection dropped on every change of channel.
SetChannelDropsWarehouse(state, channel) ==
    [state EXCEPT !.channel = IF channel = Tok("all") THEN JNull ELSE channel,
                  !.warehouse = IF channel = Tok("all") THEN @ ELSE JNull]

\* setChannel(channel)
SetChannel(state, channel) ==
    [state EXCEPT !.channel = IF channel = Tok("all") THEN JNull ELSE channel]

\* String(x) of a number or a text.
ToText(x) == IF x.t = "number" THEN IntChars(x.v) ELSE x.v

\* setMembershipNumber(membershipNumber)
SetMembershipNumber(state, membershipNumber) ==
    [state EXCEPT !.membershipNumber =
        IF Truthy(membershipNumber) /\ membershipNumber # Tok("all")
        THEN Str(ToText(membershipNumber)) ELSE JNull]

\* setSearchTerm(term)
SetSearchTerm(state, term) ==
    [state EXCEPT !.searchTerm =
        IF Truthy(term) /\ Len(Trim(term.v)) > 0 THEN Str(Trim(term.v)) ELSE JNull]

\* setTransactionType(type)
SetTransactionType(state, type) ==
    [state EXCEPT !.transactionType = type]

\* new Date(now.getFullYear(), 0, 1)
YearStart(now) == (now \div 10000) * 10000 + 101

\* d.setMonth(d.getMonth() - 12): the same day a year earlier; the 29th of
\* February of a year that has none overflows into the 1st of March.
TwelveMonthsBefore(now) ==
    LET y == now \div 10000
        m == (now \div 100) % 100
        d == now % 100
    IN  IF d > DaysInMonth(y - 1, m) THEN (y - 1) * 10000 + (m + 1) * 100 + 1
        ELSE now - 10000

PresetNames == {"ytd", "last12", "all", "custom"}

\* SetPreset with the date range left as it is under every preset.
SetPresetKeepsRange(state, preset, now) ==
    IF preset \in PresetNames THEN [state EXCEPT !.currentPreset = preset]
    ELSE state

\* setPreset(preset), called when the clock reads now.
SetPreset(state, preset, now) ==
    CASE preset = "ytd" ->
            [state EXCEPT !.dateRange = [start |-> YearStart(now), end |-> now],
                          !.currentPreset = "ytd"]
      [] preset = "last12" ->
            [state EXCEPT !.dateRange = [start |-> TwelveMonthsBefore(now), end |-> now],
                          !.currentPreset = "last12"]
      [] preset = "all" ->
            [state EXCEPT !.dateRange = [start |-> 0, end |-> 0],
                          !.currentPreset = "all"]
      [] preset = "custom" -> [state EXCEPT !.currentPreset = "custom"]
      [] OTHER -> state

\* The events setPreset emits: none for an unknown preset.
PresetEvents(preset) ==
    IF preset \in PresetNames THEN <<"filter:presetChanged", "filter:changed">>
    ELSE <<>>

\* clearFilters()
ClearFilters(state) ==
    [dateRange |-> [start |-> 0, end |-> 0], warehouse |-> JNull, channel |-> JNull,
     membershipNumber |-> JNull, searchTerm |-> JNull, transactionType |-> JNull,
     currentPreset |-> "all"]

\* PassesDateRange with the end of the range excluded.
PassesDateRangeOpenEnd(state, receipt) ==
    LET date == receipt.transactionDateTime
    IN  /\ date # 0
        /\ ~(state.dateRange.start # 0 /\ date < state.dateRange.start)
        /\ ~(state.dateRange.end # 0 /\ date >= state.dateRange.end)

\* The six filter steps of applyFilters, each a predicate on a receipt.
PassesDateRange(state, receipt) ==
    LET date == receipt.transactionDateTime
    IN  /\ date # 0
        /\ ~(state.dateRange.start # 0 /\ date < state.dateRange.start)
        /\ ~(state.dateRange.end # 0 /\ date > state.dateRange.end)

PassesChannel(state, receipt) ==
    LET channel == ChannelOf(receipt)
    IN  IF state.channel = Tok("warehouse")
        THEN channel \in {Tok("warehouse"), Tok("In-Warehouse"), Tok("Gas Station")}
        ELSE IF state.channel = Tok("online") THEN channel = Tok("online")
        ELSE TRUE

PassesOnlineWarehouse(receipt) ==
    \/ receipt.channel = Tok("online")
    \/ receipt.documentType = Tok("ONLINE")
    \/ receipt.documentType = Tok("OnlineReceipts")
    \/ receipt.warehouseName = <<"Online">>

PassesWarehouse(state, receipt) ==
    IF state.warehouse = Tok("ONLINE") THEN PassesOnlineWarehouse(receipt)
    ELSE LET whNum == ToNumber(state.warehouse)
         IN  ~whNum.nan /\ receipt.warehouseNumber = whNum.n

PassesMembership(state, receipt) ==
    LET receiptMembership ==
            IF Truthy(receipt.membershipNumber)
            THEN Str(ToText(receipt.membershipNumber)) ELSE JNull
    IN  receiptMembership = state.membershipNumber

PassesTransactionType(state, receipt) ==
    receipt.transactionType = state.transactionType

PassesSearch(state, receipt) ==
    LET term == ToLowerCase(state.searchTerm.v)
    IN  \E i \in 1..Len(receipt.itemArray) :
           \/ Includes(ToLowerCase(receipt.itemArray[i].normalizedName), term)
           \/ Includes(receipt.itemArray[i].itemNumber, term)

\* applyFilters(receipts): the pipeline, one filter after the other.
ApplyFilters(state, rs) ==
    LET ByDate(r) == PassesDateRange(state, r)
        ByChannel(r) == PassesChannel(state, r)
        ByWarehouse(r) == PassesWarehouse(state, r)
        ByMembership(r) == PassesMembership(state, r)
        ByType(r) == PassesTransactionType(state, r)
        BySearch(r) == PassesSearch(state, r)
        Step6(filtered) ==
            IF Truthy(state.searchTerm) THEN SelectSeq(filtered, BySearch)
            ELSE filtered
        Step5(filtered) ==
            Step6(IF /\ Truthy(state.transactionType)
                     /\ state.transactionType # Tok("all")
                  THEN SelectSeq(filtered, ByType) ELSE filtered)
        Step4(filtered) ==
            Step5(IF Truthy(state.membershipNumber)
                  THEN SelectSeq(filtered, ByMembership) ELSE filtered)
        Step3(filtered) ==
            Step4(IF state.warehouse # JNull /\ state.warehouse # Tok("all")
                  THEN SelectSeq(filtered, ByWarehouse) ELSE filtered)
        Step2(filtered) ==
            Step3(IF Truthy(state.channel) THEN SelectSeq(filtered, ByChannel)
                  ELSE filtered)
    IN  Step2(IF state.dateRange.start # 0 \/ state.dateRange.end # 0
              THEN SelectSeq(rs, ByDate) ELSE rs)

-----------------------------------------------------------------------------
(* DataStore *)

\* The entries rebuildIndexes pushes for item number n, in receipt order.
RECURSIVE ItemOccurrences(_, _)
ItemOccurrences(rs, n) ==
    IF rs = <<>> THEN <<>>
    ELSE LET r == Head(rs)
             hits == SelectSeq(r.itemArray, LAMBDA it : it.itemNumber = n)
         IN  [i \in 1..Len(hits) |->
                 [item |-> hits[i], receiptId |-> r.id,
                  receiptDate |-> r.transactionDateTime,
                  warehouseNumber |-> r.warehouseNumber]]
             \o ItemOccurrences(Tail(rs), n)

\* rebuildIndexes() keeping the indexes of the receipts it already had.
RebuildIndexesFirstOnly(rs) ==
    IF rs = <<>>
    THEN [receipts |-> rs, itemIndex |-> <<>>, warehouseSet |-> {},
          dateRange |-> [min |-> 0, max |-> 0]]
    ELSE [receipts     |-> rs,
          itemIndex    |->
              [n \in {rs[1].itemArray[j].itemNumber : j \in 1..Len(rs[1].itemArray)} |->
                  ItemOccurrences(<<rs[1]>>, n)],
          warehouseSet |-> {rs[1].warehouseNumber} \ {0},
          dateRange    |-> [min |-> rs[1].transactionDateTime,
                            max |-> rs[1].transactionDateTime]]

\* rebuildIndexes(): every index is rebuilt from the receipts.
RebuildIndexes(rs) ==
    LET numbers == UNION {{r.itemArray[i].itemNumber : i \in 1..Len(r.itemArray)} :
                            r \in Range(rs)}
        dates == {r.transactionDateTime : r \in Range(rs)} \ {0}
    IN  [receipts     |-> rs,
         itemIndex    |-> [n \in numbers |-> ItemOccurrences(rs, n)],
         warehouseSet |-> {r.warehouseNumber : r \in Range(rs)} \ {0},
         dateRange    |->
             IF dates = {} THEN [min |-> 0, max |-> 0]
             ELSE [min |-> CHOOSE d \in dates : \A e \in dates : d <= e,
                   max |-> CHOOSE d \in dates : \A e \in dates : d >= e]]

\* addReceipts(receipts)
AddReceipts(state, batch) == RebuildIndexes(state.receipts \o batch)

\* clear()
ClearStore ==
    [receipts |-> <<>>, itemIndex |-> <<>>, warehouseSet |-> {},
     dateRange |-> [min |-> 0, max |-> 0]]

\* getItemsByNumber(itemNumber)
GetItemsByNumber(state, itemNumber) ==
    IF itemNumber \in DOMAIN state.itemIndex THEN state.itemIndex[itemNumber]
    ELSE <<>>

\* getWarehouses()
GetWarehouses(state) == state.warehouseSet

\* getDateRange()
GetDateRange(state) == state.dateRange

\* getReceipts() serving the receipts of the first addition only.
GetReceiptsFirstOnly(state) == SubSeq(state.receipts, 1, Min(1, Len(state.receipts)))

\* getReceipts(): a copy of the receipts.
GetReceipts(state) == state.receipts

\* FilterManager.getFilteredReceipts()
GetFilteredReceipts(fstate, sstate) == ApplyFilters(fstate, GetReceipts(sstate))

-----------------------------------------------------------------------------
(* DataProcessor: the Validator *)

\* A parsed JSON object is a record of its properties; every other value
\* carries its type.
IsObject(x) == "t" \notin DOMAIN x

\* typeof x
TypeOf(x) ==
    IF IsObject(x) \/ x.t \in {"null", "array"} THEN "object" ELSE x.t

\* Array.isArray(x)
IsArray(x) == ~IsObject(x) /\ x.t = "array"

\* RECEIPT_SCHEMA.required and ITEM_SCHEMA.required
ReceiptRequired == <<"transactionType", "total", "itemArray", "warehouseNumber">>
ItemRequired == <<"itemNumber", "amount", "unit">>

ValidTypes ==
    {Tok("Sales"), Tok("Refund"), Tok("Return"), Tok("Delivered"), Tok("Shipped"),
     Tok("Cancelled"), Tok("Returned")}

\* The entries of a sequence of texts that are not the empty text.
Present(texts) == SelectSeq(texts, LAMBDA e : e # "")

\* validateItem(item, receiptIndex, itemIndex)
ValidateItem(it) ==
    IF ~IsObject(it)
    THEN [errors |-> <<"item: not a valid object">>, warnings |-> <<>>]
    ELSE [errors |-> Present(
            [i \in 1..Len(ItemRequired) |->
                IF ItemRequired[i] \in DOMAIN it THEN ""
                ELSE "item: missing required field"]
            \o <<IF Get(it, "amount") # JNull /\ TypeOf(Get(it, "amount")) # "number"
                 THEN "item: amount must be a number" ELSE "",
                 IF /\ Get(it, "unit") # JNull
                    /\ TypeOf(Get(it, "unit")) \notin {"number", "string"}
                 THEN "item: unit must be a number or string" ELSE "",
                 IF /\ Truthy(Get(it, "itemNumber"))
                    /\ TypeOf(Get(it, "itemNumber")) # "string"
                 THEN "item: itemNumber must be a string" ELSE "">>),
          warnings |-> Present(
            <<IF /\ ~Truthy(Get(it, "itemDescription01"))
                 /\ ~Truthy(Get(it, "itemActualName"))
              THEN "item: no description" ELSE "">>)]

\* The consistency warning of validateReceipt: total against
\* subTotal + taxes - discount, two cents allowed.
TotalMismatch(receipt) ==
    /\ Truthy(Get(receipt, "subTotal"))
    /\ Truthy(Get(receipt, "taxes"))
    /\ Truthy(Get(receipt, "total"))
    /\ LET discount == Or(Get(receipt, "orderDiscountAmount"), Num(0))
           calculatedTotal == receipt.subTotal.v + receipt.taxes.v - discount.v
       IN  Abs(calculatedTotal - receipt.total.v) > 2

\* validateReceipt(receipt, index)
ValidateReceipt(receipt) ==
    LET Checked(itemArray, items) ==
            LET Result(errors, warnings) ==
                    [valid |-> errors = <<>>, errors |-> errors, warnings |-> warnings]
            IN  Result(
                  Present(
                    [i \in 1..Len(ReceiptRequired) |->
                        IF Get(receipt, ReceiptRequired[i]) \in {Undefined, JNull}
                        THEN "missing required field" ELSE ""]
                    \o <<IF /\ ~Truthy(Get(receipt, "transactionDate"))
                            /\ ~Truthy(Get(receipt, "transactionDateISO"))
                            /\ ~Truthy(Get(receipt, "transactionDateTime"))
                         THEN "missing required date field" ELSE "",
                         IF /\ Truthy(Get(receipt, "transactionDate"))
                            /\ TypeOf(Get(receipt, "transactionDate")) # "string"
                         THEN "transactionDate must be a string" ELSE "",
                         IF /\ Get(receipt, "total") # JNull
                            /\ Get(receipt, "total") # Str(<<>>)
                            /\ TypeOf(Get(receipt, "total")) # "number"
                         THEN "total must be a number or empty string" ELSE "",
                         IF /\ Get(receipt, "warehouseNumber") # JNull
                            /\ TypeOf(Get(receipt, "warehouseNumber")) # "number"
                         THEN "warehouseNumber must be a number" ELSE "",
                         IF ~IsArray(itemArray) THEN "itemArray must be an array"
                         ELSE "">>)
                  \o Flatten([i \in 1..Len(items) |-> items[i].errors])
                  \o Present(
                       <<IF /\ Truthy(Get(receipt, "tenderArray"))
                            /\ ~IsArray(Get(receipt, "tenderArray"))
                         THEN "tenderArray must be an array" ELSE "",
                         IF /\ Truthy(Get(receipt, "couponArray"))
                            /\ ~IsArray(Get(receipt, "couponArray"))
                         THEN "couponArray must be an array" ELSE "">>),
                  Present(
                       <<IF IsArray(itemArray) /\ itemArray.v = <<>>
                         THEN "itemArray is empty" ELSE "">>)
                  \o Flatten([i \in 1..Len(items) |-> items[i].warnings])
                  \o Present(
                       <<IF /\ Truthy(Get(receipt, "transactionType"))
                            /\ Get(receipt, "transactionType") \notin ValidTypes
                         THEN "unexpected transactionType" ELSE "",
                         IF TotalMismatch(receipt) THEN "total does not match"
                         ELSE "">>))
        Items(itemArray) ==
            Checked(itemArray,
                    IF IsArray(itemArray)
                    THEN [i \in 1..Len(itemArray.v) |-> ValidateItem(itemArray.v[i])]
                    ELSE <<>>)
    IN  IF ~IsObject(receipt)
        THEN [valid |-> FALSE, errors |-> <<"not a valid object">>,
              warnings |-> <<>>]
        ELSE Items(Get(receipt, "itemArray"))

\* validateJSONStructure accepting a file only when all its receipts pass.
ValidateJSONStructureAllOrNothing(data, filename) ==
    IF ~IsArray(data)
    THEN [valid |-> FALSE, errors |-> <<"root element must be an array">>,
          warnings |-> <<>>, receipts |-> <<>>]
    ELSE IF data.v = <<>>
    THEN [valid |-> FALSE, errors |-> <<"receipt array is empty">>,
          warnings |-> <<>>, receipts |-> <<>>]
    ELSE IF \A i \in 1..Len(data.v) : ValidateReceipt(data.v[i]).valid
    THEN [valid |-> TRUE, errors |-> <<>>, warnings |-> <<>>, receipts |-> data.v,
          totalCount |-> Len(data.v), validCount |-> Len(data.v),
          invalidCount |-> 0, filename |-> filename]
    ELSE [valid |-> FALSE, errors |-> <<"invalid receipt">>, warnings |-> <<>>,
          receipts |-> <<>>, totalCount |-> Len(data.v), validCount |-> 0,
          invalidCount |-> Len(data.v), filename |-> filename]

\* validateJSONStructure(data, filename)
ValidateJSONStructure(data, filename) ==
    LET Summary(validations, validReceipts) ==
            [valid        |-> validReceipts # <<>>,
             errors       |-> Flatten([i \in 1..Len(validations) |->
                                  IF validations[i].valid THEN <<>>
                                  ELSE validations[i].errors]),
             warnings     |-> Flatten([i \in 1..Len(validations) |->
                                  validations[i].warnings]),
             receipts     |-> validReceipts,
             totalCount   |-> Len(data.v),
             validCount   |-> Len(validReceipts),
             invalidCount |-> Len(data.v) - Len(validReceipts),
             filename     |-> filename]
        Each(validations) ==
            Summary(validations,
                    Flatten([i \in 1..Len(data.v) |->
                                IF validations[i].valid THEN <<data.v[i]>>
                                ELSE <<>>]))
    IN  IF ~IsArray(data)
        THEN [valid |-> FALSE, errors |-> <<"root element must be an array">>,
              warnings |-> <<>>, receipts |-> <<>>]
        ELSE IF data.v = <<>>
        THEN [valid |-> FALSE, errors |-> <<"receipt array is empty">>,
              warnings |-> <<>>, receipts |-> <<>>]
        ELSE Each([i \in 1..Len(data.v) |-> ValidateReceipt(data.v[i])])

-----------------------------------------------------------------------------
(* Raw receipts: the two vendor shapes, as a parsed JSON file holds them *)

RawItem(number, amount, unit, description) ==
    [itemNumber |-> Str(number), amount |-> Num(amount), unit |-> unit,
     itemDescription01 |-> Str(description)]

Product111  == RawItem(<<"1", "1", "1">>, 1999, Num(1), <<"A", "b">>)
Discount111 == RawItem(<<"9", "9">>, -200, Num(0), <<"/", "1", "1", "1">>)
Return222   == RawItem(<<"2", "2", "2">>, -5000, Num(-1), <<"C", "d">>)
Online333   == RawItem(<<"3", "3", "3">>, 4500, Str(<<"E", "A">>), <<"b", " ", "C">>)
Fuel444     == RawItem(<<"4", "4", "4">>, 3000, Num(1), <<"D">>)

RawReceipt(type, date, warehouse, total, subTotal, taxes, items) ==
    [transactionType |-> Tok(type), transactionDate |-> Str(date),
     warehouseNumber |-> Num(warehouse), total |-> Num(total),
     subTotal |-> Num(subTotal), taxes |-> Num(taxes), itemArray |-> Arr(items)]

\* A warehouse sale with a discount line (total 21.37, tax 1.38).
SaleRaw ==
    RawReceipt("Sales", <<2024, 3, 15>>, 1, 2137, 1999, 138,
               <<Product111, Discount111>>)
    @@ [transactionNumber |-> Num(7), membershipNumber |-> Num(55),
        transactionBarcode |-> Tok("B1")]
\* A refund receipt: one returned item, negative total and tax.
RefundRaw ==
    RawReceipt("Refund", <<2024, 3, 14>>, 1, -5000, -4700, -300, <<Return222>>)
    @@ [membershipNumber |-> Num(55)]
\* A receipt of type Sales whose total is negative.
NegativeSaleRaw ==
    RawReceipt("Sales", <<2023, 12, 31>>, 2, -1000, -1050, 50, <<Product111>>)
\* A receipt of type Return whose total and tax are positive.
ReturnRaw ==
    RawReceipt("Return", <<2024, 1, 1>>, 2, 700, 650, 50,
               <<Product111, Discount111>>)
\* An online order, delivered, with an order discount.
OnlineRaw ==
    [transactionType |-> Tok("Delivered"), transactionDateISO |-> Str(<<2024, 2, 29>>),
     warehouseNumber |-> Num(847), total |-> Num(4500), subTotal |-> Num(4800),
     taxes |-> Num(200), orderDiscountAmount |-> Num(500),
     itemArray |-> Arr(<<Online333>>), channel |-> Tok("online"),
     documentType |-> Tok("OnlineReceipts"), membershipNumber |-> Tok("M2")]
\* A gas station fill-up.
GasRaw ==
    RawReceipt("Sales", <<2024, 3, 15>>, 1, 3000, 3000, 0, <<Fuel444>>)
    @@ [receiptType |-> Tok("Gas Station"), channel |-> Tok("gas_station")]
\* A cancelled online order: its total is the empty text.
CancelledRaw ==
    [transactionType |-> Tok("Cancelled"), transactionDateISO |-> Str(<<2024, 3, 1>>),
     warehouseNumber |-> Num(847), total |-> Str(<<>>),
     itemArray |-> Arr(<<Online333>>), documentType |-> Tok("ONLINE")]

RawCatalogue ==
    {SaleRaw, RefundRaw, NegativeSaleRaw, ReturnRaw, OnlineRaw, GasRaw, CancelledRaw}

-----------------------------------------------------------------------------
(* Initial values *)

\* FilterManager: the state object as constructed.
InitialFilterState ==
    [dateRange |-> [start |-> 0, end |-> 0], warehouse |-> JNull, channel |-> JNull,
     membershipNumber |-> JNull, searchTerm |-> JNull,
     transactionType |-> JNull, currentPreset |-> "all"]

\* DataStore: the state object as constructed.
InitialStore ==
    [receipts |-> <<>>, itemIndex |-> <<>>, warehouseSet |-> {},
     dateRange |-> [min |-> 0, max |-> 0]]

\* DataProcessor: the state object as constructed.
InitialProcessor ==
    [selectedFiles |-> <<>>, loadedFiles |-> <<>>, parsedReceipts |-> <<>>,
     totalSize |-> 0]

NoCall == [op |-> "none"]

AppIdle ==
    /\ filterState = InitialFilterState
    /\ mirror = InitialFilterState
    /\ lastCall = NoCall
    /\ store = InitialStore
    /\ proc = InitialProcessor
    /\ jobs = <<>>
    /\ ingested = 0
    /\ overlay = FALSE

\* Before its first call a function has returned nothing.
TotalsIdle == receipts = <<>> /\ stats = Undefined
ItemIdle == item = Undefined /\ normalized = Undefined
MergeIdle == receiptsArray = <<>> /\ merged = MergeReceipts(<<>>)

appVars == <<filterState, mirror, lastCall, store, proc, jobs, ingested, overlay>>
totalsVars == <<receipts, stats>>
itemVars == <<item, normalized>>
mergeVars == <<receiptsArray, merged>>

-----------------------------------------------------------------------------
(* calculateTotals applied to growing receipt sets *)

MaxReceipts == 3

\* Two units of product 111 on one line, and the refund of one of them.
TwoUnitSaleRaw ==
    RawReceipt("Sales", <<2024, 4, 2>>, 1, 3998, 3998, 0,
               <<RawItem(<<"1", "1", "1">>, 3998, Num(2), <<"A", "b">>)>>)
OneUnitRefundRaw ==
    RawReceipt("Refund", <<2024, 4, 9>>, 1, -1999, -1999, 0,
               <<RawItem(<<"1", "1", "1">>, -1999, Num(-1), <<"A", "b">>)>>)

\* The receipts calculateTotals is given: normalized receipts.
TotalsReceipts ==
    {NormalizeReceipt(r, 0, "file.json") :
        r \in (RawCatalogue \ {CancelledRaw}) \cup {TwoUnitSaleRaw, OneUnitRefundRaw}}

InitTotals == AppIdle /\ ItemIdle /\ MergeIdle /\ TotalsIdle

\* calculateTotals is called on the receipt set as it is, or extended by one
\* receipt.
CallCalculateTotals ==
    /\ \E batch \in {<<>>} \cup {<<r>> : r \in TotalsReceipts} :
          /\ Len(receipts) + Len(batch) <= MaxReceipts
          /\ receipts' = receipts \o batch
          /\ stats' = CalculateTotals(receipts')
    /\ UNCHANGED <<appVars, itemVars, mergeVars>>

NextTotals == CallCalculateTotals

SpecTotals == InitTotals /\ [][NextTotals]_vars

\* C1: for every receipt set passed to calculateTotals the result has
\* netSpent = grossSpent + refundSpent and refundSpent <= 0.
ClaimC1_NetIsGrossPlusRefund ==
    stats # Undefined =>
        /\ "refundSpent" \in DOMAIN stats
        /\ stats.netSpent = stats.grossSpent + stats.refundSpent
        /\ stats.refundSpent <= 0

RefundTypes == {Tok("Refund"), Tok("Return"), Tok("Returned")}

\* C2: calculateTotals counts a receipt as a refund exactly when its type is
\* Refund, Return or Returned or its total is negative, and as a sale
\* otherwise, so salesReceipts + refundReceipts = totalReceipts; a refund
\* receipt adds |total| to refundAmount, takes |total| from netSpent, |taxes|
\* from totalTaxes and |instantSavings| from totalSavings, and leaves
\* grossSpent alone.
ClaimC2_RefundClassification ==
    [][(stats # Undefined /\ receipts' # receipts) =>
         LET r == receipts'[Len(receipts')]
             refund == r.transactionType \in RefundTypes \/ r.total < 0
         IN  /\ stats'.salesReceipts + stats'.refundReceipts = stats'.totalReceipts
             /\ stats'.totalReceipts = Len(receipts')
             /\ stats'.refundReceipts = stats.refundReceipts + (IF refund THEN 1 ELSE 0)
             /\ stats'.salesReceipts = stats.salesReceipts + (IF refund THEN 0 ELSE 1)
             /\ refund =>
                  /\ stats'.refundAmount = stats.refundAmount + Abs(r.total)
                  /\ stats'.netSpent = stats.netSpent - Abs(r.total)
                  /\ stats'.totalTaxes = stats.totalTaxes - Abs(r.taxes)
                  /\ stats'.totalSavings = stats.totalSavings - Abs(r.instantSavings)
                  /\ stats'.grossSpent = stats.grossSpent
    ]_vars

\* A refund by sign alone (type Sales, negative total) and a refund by type
\* alone (type Return, positive total and tax) have been counted after a sale.
WitnessC2 ==
    /\ stats # Undefined
    /\ Len(receipts) = 3
    /\ receipts[1].total > 0 /\ receipts[1].transactionType = Tok("Sales")
    /\ receipts[2].total < 0 /\ receipts[2].transactionType = Tok("Sales")
    /\ receipts[3].total > 0 /\ receipts[3].transactionType = Tok("Return")
    /\ receipts[3].taxes > 0 /\ receipts[3].instantSavings > 0
    /\ stats.refundReceipts = 2

-----------------------------------------------------------------------------
(* normalizeItem applied to raw items *)

ItemAmounts == {-500, 0, 1999}
ItemUnits == {Num(-1), Num(0), Num(2), Str(<<"E", "A">>), Str(<<"-", "2">>), Undefined}
ItemActualNames == {Undefined, Str(<<"/", "1", "1", "1">>), Str(<<"A", "b">>),
                    Str(<<"/", "A", "b">>)}
ItemDescriptions == {Undefined, Str(<<" ", "/", "1">>), Str(<<"C", " ", " ", "d">>)}
ItemFrenchDescriptions == {Undefined, Str(<<"/", "9">>)}

RawItems ==
    {[itemNumber |-> Str(<<"7">>), amount |-> Num(a), unit |-> u,
      itemActualName |-> n, itemDescription01 |-> d, frenchItemDescription1 |-> f] :
        a \in ItemAmounts, u \in ItemUnits, n \in ItemActualNames,
        d \in ItemDescriptions, f \in ItemFrenchDescriptions}

InitItem ==
    /\ AppIdle /\ TotalsIdle /\ MergeIdle
    /\ item \in RawItems
    /\ normalized = Undefined

\* normalizeItem(item) is called.
CallNormalizeItem ==
    /\ normalized' = NormalizeItem(item)
    /\ UNCHANGED <<item, appVars, totalsVars, mergeVars>>

NextItem == CallNormalizeItem

SpecItem == InitItem /\ [][NextItem]_vars

\* The item reference and the return test of the item normalizeItem returned,
\* as the function computed them.
ItemReferenceOf(raw, norm) ==
    HasItemReference(norm.itemActualName, norm.itemDescription01, raw)
ItemIsReturn(raw, norm) ==
    IsReturn(norm.amount, norm.unit, ItemReferenceOf(raw, norm))

\* C3: normalizeItem never classifies an item as both a discount and a return.
ClaimC3_DiscountReturnExclusive ==
    normalized # Undefined =>
        ~(normalized.isDiscount /\ ItemIsReturn(item, normalized))

\* Both classes occur: a return has been classified.
WitnessC3 ==
    /\ normalized # Undefined
    /\ ItemIsReturn(item, normalized)
    /\ ~normalized.isDiscount
    /\ normalized.amount = -500 /\ normalized.unit = -2

\* A name-like text that starts with a slash followed by a digit.
SlashDigits(s) == Len(s) >= 2 /\ s[1] = "/" /\ IsDigit(s[2])

\* C4: isDiscount = amount < 0 AND (hasItemReference OR (NOT isReturn AND
\* unit >= 0)), where hasItemReference holds exactly when a name-like field
\* starts with a slash followed by digits.
ClaimC4_DiscountRule ==
    normalized # Undefined =>
        LET french == Get(item, "frenchItemDescription1")
            hasItemReference ==
                \/ SlashDigits(normalized.itemActualName)
                \/ SlashDigits(normalized.itemDescription01)
                \/ (Truthy(french) /\ SlashDigits(french.v))
            isReturn == normalized.amount < 0 /\ normalized.unit < 0
                        /\ ~hasItemReference
        IN  normalized.isDiscount =
                (normalized.amount < 0 /\
                    (hasItemReference \/ (~isReturn /\ normalized.unit >= 0)))

-----------------------------------------------------------------------------
(* mergeReceipts applied to growing arrays of receipt arrays *)

MaxMergeReceipts == 3
MaxMergeArrays == 2

OneItemSale == [SaleRaw EXCEPT !.itemArray = Arr(<<Product111>>)]
NoItemSale == [SaleRaw EXCEPT !.itemArray = Arr(<<>>)]
OtherNumberSale == [SaleRaw EXCEPT !.transactionNumber = Num(8)]
NoBarcodeSale == [SaleRaw EXCEPT !.transactionBarcode = Undefined]
NoBarcodeOneItemSale == [OneItemSale EXCEPT !.transactionBarcode = Undefined]

\* Receipts with no barcode whose total is another: the one with the same
\* transaction number, and two with no transaction number.
NoBarcodeOtherTotal ==
    [NoBarcodeOneItemSale EXCEPT !.total = Num(1999), !.taxes = Num(0)]
NoNumberSale == [NoBarcodeSale EXCEPT !.transactionNumber = Undefined]
NoNumberOtherTotal == [NoBarcodeOtherTotal EXCEPT !.transactionNumber = Undefined]

\* Exports that overlap: the same transaction with more or fewer item lines,
\* with and without a barcode, and other transactions.
MergeRaws ==
    {SaleRaw, OneItemSale, NoItemSale, OtherNumberSale, NoBarcodeSale,
     NoBarcodeOneItemSale, RefundRaw, NoBarcodeOtherTotal, NoNumberSale,
     NoNumberOtherTotal}

MergeUniverse == {NormalizeReceipt(r, 0, "file.json") : r \in MergeRaws}

InitMerge == AppIdle /\ TotalsIdle /\ ItemIdle /\ MergeIdle

\* mergeReceipts is called on the arrays with one more receipt, in the last
\* array or in a new array.
CallMergeReceipts ==
    /\ Len(Flatten(receiptsArray)) < MaxMergeReceipts
    /\ \E r \in MergeUniverse :
          \/ /\ receiptsArray # <<>>
             /\ receiptsArray' =
                  [receiptsArray EXCEPT ![Len(receiptsArray)] = Append(@, r)]
          \/ /\ Len(receiptsArray) < MaxMergeArrays
             /\ receiptsArray' = Append(receiptsArray, <<r>>)
    /\ merged' = MergeReceipts(receiptsArray')
    /\ UNCHANGED <<appVars, totalsVars, itemVars>>

NextMerge == CallMergeReceipts

SpecMerge == InitMerge /\ [][NextMerge]_vars

\* The dedup key as the claims state it: the raw transaction barcode when the
\* receipt has one, the normalized id otherwise.
StatedKey(r) ==
    IF Truthy(Get(r._original, "transactionBarcode"))
    THEN r._original.transactionBarcode ELSE Str(r.id)

\* C5: of two receipts with the same dedup key and item arrays of different
\* length the shorter is never retained and the key keeps a receipt at least
\* as long as the longer, whatever their order and their arrays; with only
\* these two under the key, the longer one is retained.
ClaimC5_LongerItemArrayWins ==
    LET input == Flatten(receiptsArray)
    IN  /\ Range(merged) \subseteq Range(input)
        /\ \A i, j \in 1..Len(input) :
              (/\ StatedKey(input[i]) = StatedKey(input[j])
               /\ Len(input[i].itemArray) < Len(input[j].itemArray))
              => /\ input[i] \notin Range(merged)
                 /\ \E m \in Range(merged) :
                       /\ StatedKey(m) = StatedKey(input[j])
                       /\ Len(m.itemArray) >= Len(input[j].itemArray)

\* The longer receipt comes first and the shorter one last, in another array,
\* with a receipt of another key between them.
WitnessC5 ==
    /\ Len(receiptsArray) = 2
    /\ LET input == Flatten(receiptsArray)
       IN  /\ Len(input) = 3
           /\ StatedKey(input[1]) = StatedKey(input[3])
           /\ Len(input[1].itemArray) = 2 /\ Len(input[3].itemArray) = 1
           /\ Len(receiptsArray[1]) = 2
           /\ StatedKey(input[2]) # StatedKey(input[1])
    /\ Len(merged) = 2

\* C6: the output of mergeReceipts holds exactly one receipt for each dedup
\* key of its input.
ClaimC6_OnePerKey ==
    /\ {StatedKey(m) : m \in Range(merged)}
         = {StatedKey(r) : r \in Range(Flatten(receiptsArray))}
    /\ \A i, j \in 1..Len(merged) :
          StatedKey(merged[i]) = StatedKey(merged[j]) => i = j

\* Two receipts share a barcode and differ in id, a third has no barcode.
WitnessC6 ==
    /\ LET input == Flatten(receiptsArray)
       IN  /\ Len(input) = 3
           /\ StatedKey(input[1]) = StatedKey(input[2])
           /\ input[1].id # input[2].id
           /\ ~Truthy(Get(input[3]._original, "transactionBarcode"))
    /\ Len(merged) = 2


-----------------------------------------------------------------------------
(* The filter engine over a store that receives and loses receipts *)

MaxStore == 2

\* The receipts the store is given: normalized receipts of every channel.
StoreReceipts ==
    {NormalizeReceipt(r, 0, "file.json") : r \in {RefundRaw, OnlineRaw, GasRaw}}

\* The values the callers pass to the setters, and the clock readings.
DateInputs == {<<s, e>> : s \in {0, 20240301}, e \in {0, 20240314}}
WarehouseInputs == {JNull, Tok("all"), Tok("ONLINE"), Num(1)}
ChannelInputs == {Tok("all"), Tok("warehouse"), Tok("online")}
MembershipInputs == {JNull, Tok("all"), Num(55)}
SearchInputs == {Str(<<>>), Str(<<" ", "b", " ">>)}
TypeInputs == {JNull, Tok("Refund")}
PresetInputs == PresetNames \cup {"weekly"}
Nows == {20240229}

FilterChanged == <<"filter:changed">>

InitFilter == AppIdle /\ ItemIdle /\ MergeIdle /\ TotalsIdle

\* A call on the FilterManager: the new filter state and the record of the call.
FilterCall(state, call) ==
    /\ filterState' = state
    /\ lastCall' = call
    /\ UNCHANGED <<mirror, store, proc, jobs, ingested, overlay>>
    /\ UNCHANGED <<totalsVars, itemVars, mergeVars>>

CallSetDateRange ==
    \E d \in DateInputs :
        FilterCall(SetDateRange(filterState, d[1], d[2]),
                   [op |-> "setDateRange", start |-> d[1], end |-> d[2],
                    events |-> FilterChanged])

CallSetWarehouse ==
    \E w \in WarehouseInputs :
        FilterCall(SetWarehouse(filterState, w),
                   [op |-> "setWarehouse", events |-> FilterChanged])

CallSetChannel ==
    \E c \in ChannelInputs :
        FilterCall(SetChannel(filterState, c),
                   [op |-> "setChannel", events |-> FilterChanged])

CallSetMembershipNumber ==
    \E m \in MembershipInputs :
        FilterCall(SetMembershipNumber(filterState, m),
                   [op |-> "setMembershipNumber", events |-> FilterChanged])

CallSetSearchTerm ==
    \E term \in SearchInputs :
        FilterCall(SetSearchTerm(filterState, term),
                   [op |-> "setSearchTerm", events |-> FilterChanged])

CallSetTransactionType ==
    \E type \in TypeInputs :
        FilterCall(SetTransactionType(filterState, type),
                   [op |-> "setTransactionType", events |-> FilterChanged])

CallSetPreset ==
    \E preset \in PresetInputs, now \in Nows :
        FilterCall(SetPreset(filterState, preset, now),
                   [op |-> "setPreset", preset |-> preset,
                    events |-> PresetEvents(preset)])

CallClearFilters ==
    FilterCall(ClearFilters(filterState),
               [op |-> "clearFilters", events |-> FilterChanged])

\* getFilteredReceipts() reads the store and the filter state, and returns.
CallGetFilteredReceipts ==
    /\ lastCall' = [op |-> "getFilteredReceipts", events |-> <<>>,
                    result |-> GetFilteredReceipts(filterState, store)]
    /\ UNCHANGED <<filterState, mirror, store, proc, jobs, ingested, overlay>>
    /\ UNCHANGED <<totalsVars, itemVars, mergeVars>>

CallAddReceipts ==
    /\ \E r \in StoreReceipts :
          /\ Len(store.receipts) < MaxStore
          /\ store' = AddReceipts(store, <<r>>)
    /\ lastCall' = [op |-> "addReceipts", events |-> <<"datastore:receiptsAdded">>]
    /\ UNCHANGED <<filterState, mirror, proc, jobs, ingested, overlay>>
    /\ UNCHANGED <<totalsVars, itemVars, mergeVars>>

CallClear ==
    /\ store' = ClearStore
    /\ lastCall' = [op |-> "clear", events |-> <<"datastore:cleared">>]
    /\ UNCHANGED <<filterState, mirror, proc, jobs, ingested, overlay>>
    /\ UNCHANGED <<totalsVars, itemVars, mergeVars>>

NextFilter ==
    \/ CallSetDateRange
    \/ CallSetWarehouse
    \/ CallSetChannel
    \/ CallSetMembershipNumber
    \/ CallSetSearchTerm
    \/ CallSetTransactionType
    \/ CallSetPreset
    \/ CallClearFilters
    \/ CallGetFilteredReceipts
    \/ CallAddReceipts
    \/ CallClear

SpecFilter == InitFilter /\ [][NextFilter]_vars

\* C9: from any filter state a call to setDateRange(start, end) leaves the
\* preset at custom and the date range at (start, end), and the preset leaves
\* custom only by a call to setPreset or clearFilters.
ClaimC9_DateRangeForcesCustom ==
    [][/\ lastCall'.op = "setDateRange" =>
            /\ filterState'.currentPreset = "custom"
            /\ filterState'.dateRange.start = lastCall'.start
            /\ filterState'.dateRange.end = lastCall'.end
       /\ (filterState.currentPreset = "custom"
             /\ filterState'.currentPreset # "custom") =>
            lastCall'.op \in {"setPreset", "clearFilters"}]_vars

\* setDateRange has been called with a start date, and the filter state now
\* reads custom with the end date of the call.
WitnessC9 ==
    /\ lastCall.op = "setDateRange"
    /\ lastCall.start # 0
    /\ filterState.currentPreset = "custom"
    /\ filterState.dateRange.end = lastCall.end

\* The predicate of each filter dimension, taken on its own.
InDateRange(state, r) ==
    /\ r.transactionDateTime # 0
    /\ state.dateRange.start # 0 => r.transactionDateTime >= state.dateRange.start
    /\ state.dateRange.end # 0 => r.transactionDateTime <= state.dateRange.end

OfChannel(state, r) ==
    /\ state.channel = Tok("warehouse") =>
          ChannelOf(r) \in {Tok("warehouse"), Tok("In-Warehouse"), Tok("Gas Station")}
    /\ state.channel = Tok("online") => ChannelOf(r) = Tok("online")

OfWarehouse(state, r) ==
    IF state.warehouse = Tok("ONLINE")
    THEN \/ r.channel = Tok("online")
         \/ r.documentType \in {Tok("ONLINE"), Tok("OnlineReceipts")}
         \/ r.warehouseName = <<"Online">>
    ELSE state.warehouse.t = "number" /\ r.warehouseNumber = state.warehouse.v

OfMembership(state, r) == r.membershipNumber = state.membershipNumber

OfTransactionType(state, r) == r.transactionType = state.transactionType

Mentions(state, r) ==
    \E i \in 1..Len(r.itemArray) :
       \/ Includes(ToLowerCase(r.itemArray[i].normalizedName),
                   ToLowerCase(state.searchTerm.v))
       \/ Includes(r.itemArray[i].itemNumber, ToLowerCase(state.searchTerm.v))

\* The dimensions of a filter state that are active.
ActiveDimensions(state) ==
    {d \in {"dateRange", "channel", "warehouse", "membership", "type", "search"} :
        CASE d = "dateRange"  -> state.dateRange.start # 0 \/ state.dateRange.end # 0
          [] d = "channel"    -> state.channel # JNull
          [] d = "warehouse"  -> state.warehouse \notin {JNull, Tok("all")}
          [] d = "membership" -> state.membershipNumber # JNull
          [] d = "type"       -> state.transactionType \notin {JNull, Tok("all")}
          [] d = "search"     -> state.searchTerm # JNull}

\* A receipt satisfies every active predicate of a filter state.
Satisfies(state, r) ==
    \A d \in ActiveDimensions(state) :
        CASE d = "dateRange"  -> InDateRange(state, r)
          [] d = "channel"    -> OfChannel(state, r)
          [] d = "warehouse"  -> OfWarehouse(state, r)
          [] d = "membership" -> OfMembership(state, r)
          [] d = "type"       -> OfTransactionType(state, r)
          [] d = "search"     -> Mentions(state, r)

\* C10: applyFilters returns exactly the input receipts that satisfy every
\* active predicate, in their input order, every input receipt when no
\* filter is active, and changes neither its input nor the filter state.
ClaimC10_ApplyFiltersSelects ==
    [][lastCall'.op = "getFilteredReceipts" =>
          /\ lastCall'.result =
                SelectSeq(store.receipts, LAMBDA r : Satisfies(filterState, r))
          /\ ActiveDimensions(filterState) = {} => lastCall'.result = store.receipts
          /\ store' = store
          /\ filterState' = filterState]_vars

\* applyFilters has kept some of the store's receipts and dropped others,
\* under a filter on the warehouse and on the end of the date range.
WitnessC10 ==
    /\ lastCall.op = "getFilteredReceipts"
    /\ filterState.warehouse = Num(1)
    /\ filterState.dateRange.end # 0
    /\ lastCall.result # <<>>
    /\ Len(lastCall.result) < Len(store.receipts)

-----------------------------------------------------------------------------
(* Two FilterManagers given the same setter calls in opposite orders *)

MaxCommuteStore == 1

\* A setter call: the dimension it sets (1 the date range, 2 the warehouse,
\* 3 the channel, 4 the membership number, 5 the search term, 6 the
\* transaction type) and its argument.
SetterCalls ==
    UNION {[dim : {1}, arg : DateInputs], [dim : {2}, arg : WarehouseInputs],
           [dim : {3}, arg : ChannelInputs], [dim : {4}, arg : MembershipInputs],
           [dim : {5}, arg : SearchInputs], [dim : {6}, arg : TypeInputs]}

ApplySetter(state, call) ==
    CASE call.dim = 1 -> SetDateRange(state, call.arg[1], call.arg[2])
      [] call.dim = 2 -> SetWarehouse(state, call.arg)
      [] call.dim = 3 -> SetChannel(state, call.arg)
      [] call.dim = 4 -> SetMembershipNumber(state, call.arg)
      [] call.dim = 5 -> SetSearchTerm(state, call.arg)
      [] call.dim = 6 -> SetTransactionType(state, call.arg)

InitCommute == AppIdle /\ ItemIdle /\ MergeIdle /\ TotalsIdle

\* Two setters of different dimensions: one manager is given the first and
\* then the second, the other the second and then the first.
CallInBothOrders ==
    /\ \E first, second \in SetterCalls :
          /\ first.dim < second.dim
          /\ filterState' = ApplySetter(ApplySetter(filterState, first), second)
          /\ mirror' = ApplySetter(ApplySetter(mirror, second), first)
    /\ lastCall' = [op |-> "setters", events |-> FilterChanged \o FilterChanged]
    /\ UNCHANGED <<store, proc, jobs, ingested, overlay>>
    /\ UNCHANGED <<totalsVars, itemVars, mergeVars>>

\* Both managers are given the same preset.
CallPresetOnBoth ==
    /\ \E preset \in PresetInputs, now \in Nows :
          /\ filterState' = SetPreset(filterState, preset, now)
          /\ mirror' = SetPreset(mirror, preset, now)
          /\ lastCall' = [op |-> "setPreset", preset |-> preset,
                          events |-> PresetEvents(preset)]
    /\ UNCHANGED <<store, proc, jobs, ingested, overlay>>
    /\ UNCHANGED <<totalsVars, itemVars, mergeVars>>

\* The store both managers read receives a receipt.
CallAddToSharedStore ==
    /\ \E r \in StoreReceipts :
          /\ Len(store.receipts) < MaxCommuteStore
          /\ store' = AddReceipts(store, <<r>>)
    /\ lastCall' = [op |-> "addReceipts", events |-> <<"datastore:receiptsAdded">>]
    /\ UNCHANGED <<filterState, mirror, proc, jobs, ingested, overlay>>
    /\ UNCHANGED <<totalsVars, itemVars, mergeVars>>

NextCommute ==
    \/ CallInBothOrders
    \/ CallPresetOnBoth
    \/ CallAddToSharedStore

SpecCommute == InitCommute /\ [][NextCommute]_vars

\* C8: two filter setters on different dimensions, called in either order,
\* leave the same filter state and the same getFilteredReceipts() result,
\* whatever the store holds.
ClaimC8_SettersCommute ==
    /\ filterState = mirror
    /\ GetFilteredReceipts(filterState, store) = GetFilteredReceipts(mirror, store)

\* Setters of two dimensions have been called in both orders on a store that
\* holds a receipt, and both dimensions are set.
WitnessC8 ==
    /\ lastCall.op = "setters"
    /\ filterState.warehouse = Num(1)
    /\ filterState.currentPreset = "custom"
    /\ filterState.dateRange.end # 0
    /\ store.receipts # <<>>


-----------------------------------------------------------------------------
(* DataProcessor: file selection and processing *)

MaxFileSize == 50 * 1024 * 1024
MaxTotalSize == 100 * 1024 * 1024

-----------------------------------------------------------------------------
(* Ingestion: file selections, the reads they start and what they load *)

MaxFiles == 2
MaxIngestions == 2

\* The same order cancelled, in the spelling with one l.
CanceledRaw == [CancelledRaw EXCEPT !.transactionType = Tok("Canceled")]

\* A File is a handle on a file of the disk: the text is read on demand.
File(name, size) == [name |-> name, size |-> size]

\* Two exports that overlap, a file that is no JSON, a file with no valid
\* receipt, and files the selection is refused for.
FileA == File(<<"a", ".json">>, 2048)
FileB == File(<<"b", ".json">>, 4096)
FileBroken == File(<<"c", ".json">>, 10)
FileNoReceipt == File(<<"d", ".json">>, 20)
FileBig == File(<<"e", ".json">>, MaxFileSize + 1)
FileEmpty == File(<<"f", ".json">>, 0)
FileText == File(<<"a", ".json", ".txt">>, 2048)
\* Three files of 40MB: each within the limit of a file, together over the
\* limit of a selection.
FileLarge1 == File(<<"g", ".json">>, 40 * 1024 * 1024)
FileLarge2 == File(<<"h", ".json">>, 40 * 1024 * 1024)
FileLarge3 == File(<<"k", ".json">>, 40 * 1024 * 1024)
OverTotalSelection == <<FileLarge1, FileLarge2, FileLarge3>>

\* An online order delivered free of charge: its total is 0.
FreeOrderRaw == [CancelledRaw EXCEPT !.transactionType = Tok("Delivered"),
                                     !.total = Num(0)]

Files == {FileA, FileB, FileBroken, FileNoReceipt, FileBig, FileEmpty, FileText}

\* The text each file holds: whether it is JSON, and the value it denotes.
Text(wellFormed, data) == [wellFormed |-> wellFormed, data |-> data]

Disk ==
    (FileA.name :> Text(TRUE, Arr(<<SaleRaw, CancelledRaw>>)))
    @@ (FileB.name :> Text(TRUE, Arr(<<OneItemSale, FreeOrderRaw, RefundRaw, JNull,
                                       CanceledRaw>>)))
    @@ (FileBroken.name :> Text(FALSE, Undefined))
    @@ (FileNoReceipt.name :> Text(TRUE, Arr(<<[transactionType |-> Tok("Sales")]>>)))
    @@ (FileBig.name :> Text(TRUE, Arr(<<SaleRaw>>)))
    @@ (FileEmpty.name :> Text(TRUE, Arr(<<>>)))
    @@ (FileText.name :> Text(TRUE, Arr(<<SaleRaw>>)))
    @@ (FileLarge1.name :> Text(TRUE, Arr(<<SaleRaw>>)))
    @@ (FileLarge2.name :> Text(TRUE, Arr(<<RefundRaw>>)))
    @@ (FileLarge3.name :> Text(TRUE, Arr(<<OnlineRaw>>)))

\* name.endsWith(suffix), a name being the sequence of its parts.
EndsWith(name, suffix) ==
    /\ Len(name) >= Len(suffix)
    /\ SubSeq(name, Len(name) - Len(suffix) + 1, Len(name)) = suffix

\* validateFiles without the limit on the size of the whole selection.
ValidateFilesNoTotalLimit(files) ==
    IF Len(files) = 0
    THEN [valid |-> FALSE, errors |-> <<"No files selected">>]
    ELSE
    LET errors ==
            Flatten([i \in 1..Len(files) |-> Present(
                <<IF ~EndsWith(files[i].name, <<".json">>)
                  THEN "Must be a JSON file" ELSE "",
                  IF files[i].size > MaxFileSize
                  THEN "File size exceeds 50MB limit" ELSE "",
                  IF files[i].size = 0 THEN "File is empty" ELSE "">>)])
    IN  [valid |-> errors = <<>>, errors |-> errors,
         totalSize |-> SeqSum([i \in 1..Len(files) |-> files[i].size])]

\* validateFiles(files): the errors and the total size.
ValidateFiles(files) ==
    IF Len(files) = 0
    THEN [valid |-> FALSE, errors |-> <<"No files selected">>]
    ELSE
    LET totalSize == SeqSum([i \in 1..Len(files) |-> files[i].size])
        errors ==
            Flatten([i \in 1..Len(files) |-> Present(
                <<IF ~EndsWith(files[i].name, <<".json">>)
                  THEN "Must be a JSON file" ELSE "",
                  IF files[i].size > MaxFileSize
                  THEN "File size exceeds 50MB limit" ELSE "",
                  IF files[i].size = 0 THEN "File is empty" ELSE "">>)])
            \o Present(<<IF totalSize > MaxTotalSize
                         THEN "Total file size exceeds 100MB limit" ELSE "">>)
    IN  [valid |-> errors = <<>>, errors |-> errors, totalSize |-> totalSize]

\* parseJSON(content, filename): JSON.parse throws on a text that is no JSON
\* and returns the value the text denotes otherwise.  A text is held as the
\* name of the file it was read from.
ParseJSON(content, filename) ==
    IF Disk[content].wellFormed
    THEN [success |-> TRUE, data |-> Disk[content].data, filename |-> filename]
    ELSE [success |-> FALSE, error |-> "Invalid JSON format", filename |-> filename]

\* The result readFile resolves with: the FileReader loaded the file, or failed.
ReadResult(file, index, loaded) ==
    IF loaded
    THEN [success |-> TRUE, filename |-> file.name, content |-> file.name,
          size |-> file.size, index |-> index]
    ELSE [success |-> FALSE, filename |-> file.name, error |-> "Failed to read file",
          index |-> index]

\* Steps 4 to 5.5 of handleFileProcessing: normalize the receipts of every
\* valid file, each with its index within its file, merge, and drop the
\* cancelled transactions.
NormalizeFile(fileResult) ==
    [i \in 1..Len(fileResult.receipts) |->
        NormalizeReceipt(fileResult.receipts[i], i - 1, fileResult.filename)]

\* NotCancelled with the American spelling forgotten.
NotCancelledOneSpelling(receipt) == receipt.transactionType # Tok("Cancelled")

NotCancelled(receipt) ==
    /\ receipt.transactionType # Tok("Cancelled")
    /\ receipt.transactionType # Tok("Canceled")

\* handleFileProcessing giving up as soon as one file fails to be read,
\* parsed or validated.
ProcessReadsAllOrNothing(readResults) ==
    LET Load(successfulReads, successfulParses, validFiles) ==
            LET Merged(mergedReceipts) ==
                    [thrown |-> "", loadedFiles |-> successfulReads,
                     mergedReceipts |-> mergedReceipts,
                     validTransactions |-> SelectSeq(mergedReceipts, NotCancelled)]
            IN  IF Len(validFiles) < Len(successfulParses) \/ validFiles = <<>>
                THEN [thrown |-> "No files passed validation"]
                ELSE Merged(MergeReceipts(
                       <<Flatten([i \in 1..Len(validFiles) |->
                                     NormalizeFile(validFiles[i])])>>))
        Validate(successfulReads, successfulParses) ==
            IF Len(successfulParses) < Len(successfulReads) \/ successfulParses = <<>>
            THEN [thrown |-> "No files were successfully parsed"]
            ELSE Load(successfulReads, successfulParses,
                      SelectSeq([i \in 1..Len(successfulParses) |->
                                    ValidateJSONStructure(successfulParses[i].data,
                                                          successfulParses[i].filename)],
                                LAMBDA r : r.valid))
        Parse(successfulReads) ==
            IF Len(successfulReads) < Len(readResults) \/ successfulReads = <<>>
            THEN [thrown |-> "No files were successfully read"]
            ELSE Validate(successfulReads,
                          SelectSeq([i \in 1..Len(successfulReads) |->
                                        ParseJSON(successfulReads[i].content,
                                                  successfulReads[i].filename)],
                                    LAMBDA r : r.success))
    IN  Parse(SelectSeq(readResults, LAMBDA r : r.success))

\* handleFileProcessing going on with no receipt when no file passes
\* validation.
ProcessReadsEmptyLoad(readResults) ==
    LET Load(successfulReads, validFiles) ==
            LET Merged(mergedReceipts) ==
                    [thrown |-> "", loadedFiles |-> successfulReads,
                     mergedReceipts |-> mergedReceipts,
                     validTransactions |-> SelectSeq(mergedReceipts, NotCancelled)]
            IN  Merged(MergeReceipts(
                       <<Flatten([i \in 1..Len(validFiles) |->
                                     NormalizeFile(validFiles[i])])>>))
        Validate(successfulReads, successfulParses) ==
            IF successfulParses = <<>>
            THEN [thrown |-> "No files were successfully parsed"]
            ELSE Load(successfulReads,
                      SelectSeq([i \in 1..Len(successfulParses) |->
                                    ValidateJSONStructure(successfulParses[i].data,
                                                          successfulParses[i].filename)],
                                LAMBDA r : r.valid))
        Parse(successfulReads) ==
            IF successfulReads = <<>>
            THEN [thrown |-> "No files were successfully read"]
            ELSE Validate(successfulReads,
                          SelectSeq([i \in 1..Len(successfulReads) |->
                                        ParseJSON(successfulReads[i].content,
                                                  successfulReads[i].filename)],
                                    LAMBDA r : r.success))
    IN  Parse(SelectSeq(readResults, LAMBDA r : r.success))

\* handleFileProcessing(files) from the moment every read has settled: what
\* it throws, or what it loads.
ProcessReads(readResults) ==
    LET Load(successfulReads, validFiles) ==
            LET Merged(mergedReceipts) ==
                    [thrown |-> "", loadedFiles |-> successfulReads,
                     mergedReceipts |-> mergedReceipts,
                     validTransactions |-> SelectSeq(mergedReceipts, NotCancelled)]
            IN  IF validFiles = <<>>
                THEN [thrown |-> "No files passed validation"]
                ELSE Merged(MergeReceipts(
                       <<Flatten([i \in 1..Len(validFiles) |->
                                     NormalizeFile(validFiles[i])])>>))
        Validate(successfulReads, successfulParses) ==
            IF successfulParses = <<>>
            THEN [thrown |-> "No files were successfully parsed"]
            ELSE Load(successfulReads,
                      SelectSeq([i \in 1..Len(successfulParses) |->
                                    ValidateJSONStructure(successfulParses[i].data,
                                                          successfulParses[i].filename)],
                                LAMBDA r : r.valid))
        Parse(successfulReads) ==
            IF successfulReads = <<>>
            THEN [thrown |-> "No files were successfully read"]
            ELSE Validate(successfulReads,
                          SelectSeq([i \in 1..Len(successfulReads) |->
                                        ParseJSON(successfulReads[i].content,
                                                  successfulReads[i].filename)],
                                    LAMBDA r : r.success))
    IN  Parse(SelectSeq(readResults, LAMBDA r : r.success))

\* What the dashboard's drop-downs read when the dashboard is initialized.
DropdownPresets == {"all", "ytd"}
DropdownChannels == {Tok("all"), Tok("online")}

\* The results an array filled as the reads complete would hold.
ReadResultsAsCompleted(files, reads, order) ==
    [k \in 1..Len(files) |->
        ReadResult(files[order[k]], order[k] - 1, reads[order[k]] = "loaded")]

\* The results Promise.all resolves with: in the order of the promises, which
\* is the order of the files, whatever the order the reads completed in.
ReadResults(files, reads, order) ==
    [i \in 1..Len(files) |-> ReadResult(files[i], i - 1, reads[i] = "loaded")]

\* The orders in which n reads can complete.
Orders(n) == {order \in [1..n -> 1..n] : \A i, j \in 1..n : order[i] = order[j] => i = j}

\* The selections a user can make, and those validateFiles lets through.
Selections == SeqsUpTo(Files, MaxFiles) \cup {OverTotalSelection}
AcceptedSelections == {files \in Selections : ValidateFiles(files).valid}

\* handleFileProcessing, tabulated: for every accepted selection and every
\* way its reads can settle, what it throws or loads.
Processed ==
    UNION {{[files |-> files, reads |-> reads, order |-> order,
             result |-> ProcessReads(ReadResults(files, reads, order))] :
               reads \in [1..Len(files) -> {"loaded", "failed"}],
               order \in Orders(Len(files))} :
           files \in AcceptedSelections}

ProcessedFor(files, reads, order) ==
    (CHOOSE p \in Processed :
        p.files = files /\ p.reads = reads /\ p.order = order).result

\* showLoading(message): the overlay gets the class active.
ShowLoading(active) == TRUE

\* HideLoading with the class active left on the overlay.
HideLoadingKeepsActive(active) == active

\* hideLoading(): the class active is removed from the overlay.
HideLoading(active) == FALSE

InitIngest == AppIdle /\ ItemIdle /\ MergeIdle /\ TotalsIdle

AllSettled(reads) == \A i \in 1..Len(reads) : reads[i] # "pending"

RemoveAt(s, j) == SubSeq(s, 1, j - 1) \o SubSeq(s, j + 1, Len(s))

\* handleFileSelection(files) with files that validateFiles refuses.
SelectionRefused ==
    /\ ingested < MaxIngestions
    /\ ingested' = ingested + 1
    /\ \E files \in Selections \ AcceptedSelections :
          LET validation == ValidateFiles(files)
          IN  /\ ~validation.valid
              /\ proc' = IF Len(files) = 0 THEN proc
                         ELSE [proc EXCEPT !.totalSize = validation.totalSize]
              /\ lastCall' = [op |-> "handleFileSelection", thrown |-> "",
                              files |-> files]
    /\ UNCHANGED <<filterState, mirror, store, jobs, overlay>>
    /\ UNCHANGED <<totalsVars, itemVars, mergeVars>>

\* handleFileSelection(files) with files that pass: handleFileProcessing
\* runs up to its await, with a read started for every file.
SelectionAccepted ==
    /\ ingested < MaxIngestions
    /\ \E files \in AcceptedSelections :
          LET validation == ValidateFiles(files)
          IN  /\ validation.valid
              /\ proc' = [proc EXCEPT !.totalSize = validation.totalSize,
                                      !.selectedFiles = files]
              /\ jobs' = Append(jobs, [files |-> files,
                                       reads |-> [i \in 1..Len(files) |-> "pending"],
                                       order |-> <<>>])
              /\ lastCall' = [op |-> "handleFileSelection", thrown |-> "",
                              files |-> files]
    /\ overlay' = ShowLoading(overlay)
    /\ ingested' = ingested + 1
    /\ UNCHANGED <<filterState, mirror, store>>
    /\ UNCHANGED <<totalsVars, itemVars, mergeVars>>

\* A read settles while another read of the same ingestion is pending.
ReadSettles ==
    /\ \E j \in 1..Len(jobs) : \E i \in 1..Len(jobs[j].reads) :
       \E outcome \in {"loaded", "failed"} :
          /\ jobs[j].reads[i] = "pending"
          /\ ~AllSettled([jobs[j].reads EXCEPT ![i] = outcome])
          /\ jobs' = [jobs EXCEPT ![j].reads[i] = outcome,
                                   ![j].order = Append(@, i)]
    /\ lastCall' = [op |-> "readFile", thrown |-> ""]
    /\ UNCHANGED <<filterState, mirror, store, proc, ingested, overlay>>
    /\ UNCHANGED <<totalsVars, itemVars, mergeVars>>


\* initializeFiltersFromUI(), run by the listener of files:parsed.
InitializeFiltersFromUI(state, presetValue, channelValue, now) ==
    LET preset == SetPreset(state, presetValue, now)
    IN  IF channelValue # Tok("all") THEN SetChannel(preset, channelValue) ELSE preset

\* The last read of an ingestion settles and handleFileProcessing resumes:
\* it loads the receipts into the store, emits files:parsed (parsed), and the
\* dashboard is initialized.  Whatever is thrown is thrown inside the try
\* block and caught: the promise of handleFileProcessing is never rejected.
LastReadSettlesAndLoads ==
    /\ \E j \in 1..Len(jobs) : \E i \in 1..Len(jobs[j].reads) :
       \E outcome \in {"loaded", "failed"} :
          LET reads == [jobs[j].reads EXCEPT ![i] = outcome]
              order == Append(jobs[j].order, i)
              result == ProcessedFor(jobs[j].files, reads, order)
          IN  /\ jobs[j].reads[i] = "pending"
              /\ AllSettled(reads)
              /\ result.thrown = ""
              /\ jobs' = RemoveAt(jobs, j)
              /\ proc' = [proc EXCEPT !.loadedFiles = result.loadedFiles,
                                      !.parsedReceipts = result.validTransactions]
              /\ store' = AddReceipts(store, result.validTransactions)
              /\ lastCall' = [op |-> "handleFileProcessing", thrown |-> "",
                              rejected |-> FALSE, parsed |-> TRUE,
                              files |-> jobs[j].files, reads |-> reads,
                              order |-> order]
    /\ \E presetValue \in DropdownPresets, channelValue \in DropdownChannels,
          now \in Nows :
          filterState' =
              InitializeFiltersFromUI(filterState, presetValue, channelValue, now)
    /\ overlay' = HideLoading(ShowLoading(overlay))
    /\ UNCHANGED <<mirror, ingested>>
    /\ UNCHANGED <<totalsVars, itemVars, mergeVars>>

\* The last read of an ingestion settles and handleFileProcessing resumes:
\* no file was read, parsed or valid, and the error is caught.
LastReadSettlesAndThrows ==
    /\ \E j \in 1..Len(jobs) : \E i \in 1..Len(jobs[j].reads) :
       \E outcome \in {"loaded", "failed"} :
          LET reads == [jobs[j].reads EXCEPT ![i] = outcome]
              order == Append(jobs[j].order, i)
              result == ProcessedFor(jobs[j].files, reads, order)
          IN  /\ jobs[j].reads[i] = "pending"
              /\ AllSettled(reads)
              /\ result.thrown # ""
              /\ jobs' = RemoveAt(jobs, j)
              /\ lastCall' = [op |-> "handleFileProcessing",
                              thrown |-> result.thrown, rejected |-> FALSE,
                              parsed |-> FALSE, files |-> jobs[j].files,
                              reads |-> reads, order |-> order]
    /\ overlay' = HideLoading(ShowLoading(overlay))
    /\ UNCHANGED <<filterState, mirror, store, proc, ingested>>
    /\ UNCHANGED <<totalsVars, itemVars, mergeVars>>

NextIngest ==
    \/ SelectionRefused
    \/ SelectionAccepted
    \/ ReadSettles
    \/ LastReadSettlesAndLoads
    \/ LastReadSettlesAndThrows

SpecIngest == InitIngest /\ [][NextIngest]_vars

\* C7: after any sequence of file ingestions the store holds no receipt whose
\* transactionType is Cancelled or Canceled.
ClaimC7_NoCancelledInStore ==
    \A i \in 1..Len(store.receipts) :
        store.receipts[i].transactionType \notin {Tok("Cancelled"), Tok("Canceled")}

\* An ingestion has loaded a file that held a cancelled order, in each of the
\* two spellings, and the store holds the other receipts of the files.
WitnessC7 ==
    LET Holds(read, raw) ==
            /\ Disk[read.content].wellFormed
            /\ IsArray(Disk[read.content].data)
            /\ raw \in Range(Disk[read.content].data.v)
    IN  /\ lastCall.op = "handleFileProcessing"
        /\ lastCall.thrown = ""
        /\ store.receipts # <<>>
        /\ \E i, j \in 1..Len(proc.loadedFiles) :
              /\ Holds(proc.loadedFiles[i], CancelledRaw)
              /\ Holds(proc.loadedFiles[j], CanceledRaw)

-----------------------------------------------------------------------------
(* getFilteredReceipts between mutations of the store *)

\* C11: after any interleaving of addReceipts, clear and filter setters,
\* getFilteredReceipts() returns applyFilters of the receipts the store holds
\* at the moment of the call under the filter state of that moment.
ClaimC11_FilteredReceiptsAreFresh ==
    [][lastCall'.op = "getFilteredReceipts" =>
         lastCall'.result = ApplyFilters(filterState', store'.receipts)]_vars

\* getFilteredReceipts is called on a store that has grown to two receipts
\* under a filter that keeps the second and drops the first.
WitnessC11 ==
    /\ lastCall.op = "getFilteredReceipts"
    /\ Len(store.receipts) = 2
    /\ lastCall.result = <<store.receipts[2]>>
    /\ store.receipts[1] # store.receipts[2]

\* What the claim calls a selection to refuse: a file over 50MB, a total
\* over 100MB, a file of zero size, or a file without the .json extension.
StatedRefusal(files) ==
    \/ \E i \in 1..Len(files) : files[i].size > 50 * 1024 * 1024
    \/ SeqSum([i \in 1..Len(files) |-> files[i].size]) > 100 * 1024 * 1024
    \/ \E i \in 1..Len(files) : files[i].size = 0
    \/ \E i \in 1..Len(files) : files[i].name[Len(files[i].name)] # ".json"

\* C15: handleFileSelection with such a selection starts no read and no
\* processing, and leaves the receipts of the store and the selectedFiles of
\* the processor as they were.
ClaimC15_RefusedSelectionStartsNothing ==
    [][(lastCall'.op = "handleFileSelection" /\ StatedRefusal(lastCall'.files)) =>
          /\ jobs' = jobs
          /\ overlay' = overlay
          /\ store'.receipts = store.receipts
          /\ proc'.selectedFiles = proc.selectedFiles]_vars

\* After an ingestion that loaded receipts, a selection of three files of
\* 40MB has been refused.
WitnessC15 ==
    /\ lastCall.op = "handleFileSelection"
    /\ lastCall.files = OverTotalSelection
    /\ store.receipts # <<>>
    /\ proc.selectedFiles # <<>>
    /\ jobs = <<>>

\* The valid receipts of every file of the disk, as the normalizer hands
\* them on: the entries that pass validateReceipt when the file is JSON and
\* its root is an array, each numbered within its file.
ValidReceiptsOnDisk ==
    LET Passes(raw) == ValidateReceipt(raw).valid
        Numbered(valid, name) ==
            [i \in 1..Len(valid) |-> NormalizeReceipt(valid[i], i - 1, name)]
    IN  {[name     |-> file.name,
          receipts |->
              IF Disk[file.name].wellFormed /\ IsArray(Disk[file.name].data)
              THEN Numbered(SelectSeq(Disk[file.name].data.v, Passes), file.name)
              ELSE <<>>] : file \in Files}

ValidReceiptsOf(file) ==
    (CHOOSE entry \in ValidReceiptsOnDisk : entry.name = file.name).receipts

\* A selected file yields a valid receipt: it was read, and it holds one.
Yields(file, outcome) == outcome = "loaded" /\ ValidReceiptsOf(file) # <<>>

\* The receipts a step has added to the store.
Added(before, after) == SubSeq(after.receipts, Len(before.receipts) + 1, Len(after.receipts))

ClaimC17_AbortLeavesStateAlone ==
    [][lastCall'.op = "handleFileProcessing" =>
          LET NoneYields(files, reads) ==
                  \A i \in 1..Len(files) : ~Yields(files[i], reads[i])
          IN  /\ ~lastCall'.rejected
              /\ NoneYields(lastCall'.files, lastCall'.reads) =>
                    /\ store' = store
                    /\ proc'.parsedReceipts = proc.parsedReceipts
                    /\ ~lastCall'.parsed]_vars

\* After an ingestion that loaded receipts, the ingestion of a file with no
\* valid receipt has been given up.
WitnessC17 ==
    /\ lastCall.op = "handleFileProcessing"
    /\ lastCall.files = <<FileNoReceipt>>
    /\ lastCall.thrown = "No files passed validation"
    /\ store.receipts # <<>>
    /\ proc.parsedReceipts # <<>>

\* C18: the settling of a read that leaves another read pending parses and
\* loads nothing; files are processed only when every read has settled; and
\* what is then added to the store, in its order, is what is added when the
\* reads complete in the order of the selection.
ClaimC18_CompletionOrderIrrelevant ==
    [][/\ lastCall'.op = "readFile" => (store' = store /\ proc' = proc)
       /\ lastCall'.op = "handleFileProcessing" =>
             LET InSelectionOrder(files, reads) ==
                     ProcessedFor(files, reads, [i \in 1..Len(files) |-> i])
                 Loaded(result) ==
                     IF result.thrown = "" THEN result.validTransactions ELSE <<>>
             IN  /\ AllSettled(lastCall'.reads)
                 /\ Len(lastCall'.order) = Len(lastCall'.files)
                 /\ Added(store, store') =
                       Loaded(InSelectionOrder(lastCall'.files, lastCall'.reads))]_vars

\* Two overlapping files have been loaded, the read of the second file
\* completing before the read of the first.
WitnessC18 ==
    /\ lastCall.op = "handleFileProcessing"
    /\ lastCall.files = <<FileA, FileB>>
    /\ lastCall.reads = <<"loaded", "loaded">>
    /\ lastCall.order = <<2, 1>>
    /\ Len(store.receipts) = 2
    /\ Len(store.receipts[1].itemArray) = 2

-----------------------------------------------------------------------------
(* The store under additions and clears *)

MaxHeld == 3
MaxBatch == 2

\* An order with no warehouse number, and a receipt whose date is no date.
NoWarehouseRaw == [OnlineRaw EXCEPT !.warehouseNumber = Num(0)]
NoDateRaw == [SaleRaw EXCEPT !.transactionDate = Str(<<2024, 13, 1>>)]

\* The receipts the store is given.
HeldReceipts ==
    {NormalizeReceipt(r, 0, "file.json") :
        r \in {SaleRaw, RefundRaw, OnlineRaw, NoWarehouseRaw, NoDateRaw}}

InitStore == AppIdle /\ ItemIdle /\ MergeIdle /\ TotalsIdle

\* addReceipts(batch), with a batch of no, one or two receipts.
CallAddBatch ==
    /\ \E batch \in SeqsUpTo(HeldReceipts, MaxBatch) :
          /\ Len(store.receipts) + Len(batch) <= MaxHeld
          /\ store' = AddReceipts(store, batch)
          /\ lastCall' = [op |-> "addReceipts", count |-> Len(batch),
                          events |-> <<"datastore:receiptsAdded">>]
    /\ UNCHANGED <<filterState, mirror, proc, jobs, ingested, overlay>>
    /\ UNCHANGED <<totalsVars, itemVars, mergeVars>>

NextStore == CallAddBatch \/ CallClear

SpecStore == InitStore /\ [][NextStore]_vars

\* Every item line of the held receipts with the receipt it is on, in order.
RECURSIVE HeldLines(_)
HeldLines(rs) ==
    IF rs = <<>> THEN <<>>
    ELSE HeldLines(SubSeq(rs, 1, Len(rs) - 1))
         \o [i \in 1..Len(rs[Len(rs)].itemArray) |->
                [item |-> rs[Len(rs)].itemArray[i], receiptId |-> rs[Len(rs)].id,
                 receiptDate |-> rs[Len(rs)].transactionDateTime,
                 warehouseNumber |-> rs[Len(rs)].warehouseNumber]]

HeldNumbers ==
    {HeldLines(store.receipts)[i].item.itemNumber :
        i \in 1..Len(HeldLines(store.receipts))}

HeldDates == {store.receipts[i].transactionDateTime : i \in 1..Len(store.receipts)} \ {0}

\* The parts of C12 on the item index and the date range, and on clear.
ItemsAndDatesAgree ==
    /\ \A n \in HeldNumbers \cup {<<"0">>} :
          GetItemsByNumber(store, n)
            = SelectSeq(HeldLines(store.receipts), LAMBDA l : l.item.itemNumber = n)
    /\ IF HeldDates = {} THEN GetDateRange(store) = [min |-> 0, max |-> 0]
       ELSE /\ GetDateRange(store).min \in HeldDates
            /\ GetDateRange(store).max \in HeldDates
            /\ \A d \in HeldDates :
                  GetDateRange(store).min <= d /\ d <= GetDateRange(store).max
    /\ lastCall.op = "clear" =>
          /\ DOMAIN store.itemIndex = {}
          /\ GetWarehouses(store) = {}
          /\ GetDateRange(store) = [min |-> 0, max |-> 0]

\* C12 as stated: the indexes agree with the held receipts, getWarehouses()
\* being the set of the warehouseNumber values of the held receipts.
ClaimC12_IndexesAgree ==
    /\ ItemsAndDatesAgree
    /\ GetWarehouses(store)
         = {store.receipts[i].warehouseNumber : i \in 1..Len(store.receipts)}

\* C12 amended: the indexes agree with the held receipts, getWarehouses()
\* being the set of the warehouseNumber values other than 0 of the held
\* receipts (0 is what the normalizer writes for a missing number).
ClaimC12_IndexesAgreeNonZero ==
    /\ ItemsAndDatesAgree
    /\ GetWarehouses(store)
         = {store.receipts[i].warehouseNumber : i \in 1..Len(store.receipts)} \ {0}

\* A second addition has put an item on two receipts, next to a receipt with
\* no date and an order with no warehouse number.
WitnessC12 ==
    /\ lastCall.op = "addReceipts"
    /\ Len(store.receipts) = 3
    /\ \E n \in HeldNumbers : Len(GetItemsByNumber(store, n)) >= 2
    /\ \E i \in 1..3 : store.receipts[i].transactionDateTime = 0
    /\ \E i \in 1..3 : store.receipts[i].warehouseNumber = 0
    /\ Cardinality(HeldDates) >= 2


-----------------------------------------------------------------------------
(* The validator applied to parsed files and to raw receipts *)

MaxFileReceipts == 3

\* A receipt without its required fields, and one whose warehouse number is
\* a text.
MissingFieldsRaw == [transactionType |-> Tok("Sales")]
TextWarehouseRaw == [SaleRaw EXCEPT !.warehouseNumber = Tok("W1")]

\* What the array of a parsed file may hold.
FileEntries == {SaleRaw, OnlineRaw, JNull, MissingFieldsRaw, TextWarehouseRaw}

\* The values JSON.parse may hand to validateJSONStructure.
ParsedRoots ==
    {Arr(rs) : rs \in SeqsUpTo(FileEntries, MaxFileReceipts)}
    \cup {JNull, Num(1), Tok("text"), SaleRaw}

\* Amounts in cents for subTotal, taxes, total and orderDiscountAmount.
SubTotalInputs == {Num(0), Num(1000), Num(1999)}
TaxInputs == {Num(0), Num(138)}
TotalInputs == {Num(0), Num(1000), Num(1138), Num(1140), Num(1141), Num(2137)}
DiscountInputs == {Undefined, Num(0), Num(3)}

\* Raw receipts that differ in their money fields only; one base is valid,
\* the other is not.
MoneyReceipts ==
    {[base EXCEPT !.subTotal = s, !.taxes = x, !.total = t]
        @@ (IF d = Undefined THEN <<>> ELSE [orderDiscountAmount |-> d]) :
       base \in {SaleRaw, TextWarehouseRaw}, s \in SubTotalInputs,
       x \in TaxInputs, t \in TotalInputs, d \in DiscountInputs}

InitValidate == AppIdle /\ ItemIdle /\ MergeIdle /\ TotalsIdle

CallValidateJSONStructure ==
    /\ \E data \in ParsedRoots :
          lastCall' = [op |-> "validateJSONStructure", data |-> data,
                       result |-> ValidateJSONStructure(data, "file.json")]
    /\ UNCHANGED <<filterState, mirror, store, proc, jobs, ingested, overlay>>
    /\ UNCHANGED <<totalsVars, itemVars, mergeVars>>

CallValidateReceipt ==
    /\ \E receipt \in MoneyReceipts \cup FileEntries :
          lastCall' = [op |-> "validateReceipt", receipt |-> receipt,
                       result |-> ValidateReceipt(receipt)]
    /\ UNCHANGED <<filterState, mirror, store, proc, jobs, ingested, overlay>>
    /\ UNCHANGED <<totalsVars, itemVars, mergeVars>>

NextValidate == CallValidateJSONStructure \/ CallValidateReceipt

SpecValidate == InitValidate /\ [][NextValidate]_vars

\* C13: for a non-empty array validateJSONStructure is valid exactly when
\* some receipt passes validateReceipt, its receipts are the passing receipts
\* in their order, and validCount + invalidCount is the number of receipts;
\* a root that is no array, or an empty one, is invalid with no receipts.
ClaimC13_FileValidIffSomeReceiptValid ==
    lastCall.op = "validateJSONStructure" =>
        LET Passes(raw) == ValidateReceipt(raw).valid
            Holds(data, result) ==
                IF IsArray(data) /\ data.v # <<>>
                THEN /\ result.valid <=> \E i \in 1..Len(data.v) : Passes(data.v[i])
                     /\ result.receipts = SelectSeq(data.v, Passes)
                     /\ result.validCount + result.invalidCount = Len(data.v)
                ELSE ~result.valid /\ result.receipts = <<>>
        IN  Holds(lastCall.data, lastCall.result)

\* A file of three entries was validated: the first is no object, the other
\* two pass and are kept in their order.
WitnessC13 ==
    /\ lastCall.op = "validateJSONStructure"
    /\ lastCall.data = Arr(<<JNull, OnlineRaw, SaleRaw>>)
    /\ lastCall.result.valid
    /\ lastCall.result.receipts = <<OnlineRaw, SaleRaw>>
    /\ lastCall.result.invalidCount = 1

\* What the claim calls a total that differs from subTotal + taxes - discount
\* by more than two cents, for a receipt whose amounts are numbers.
StatedMismatch(receipt) ==
    /\ IsObject(receipt)
    /\ \A f \in {"subTotal", "taxes", "total"} : TypeOf(Get(receipt, f)) = "number"
    /\ LET stated == receipt.subTotal.v + receipt.taxes.v
                        - NumberOr0(Get(receipt, "orderDiscountAmount"))
       IN  Abs(receipt.total.v - stated) > 2

\* C14: a receipt whose total differs from subTotal + taxes - discount by
\* more than two cents gets the warning, and is valid exactly when the same
\* receipt with the matching total is.
ClaimC14_MismatchWarns ==
    (lastCall.op = "validateReceipt" /\ StatedMismatch(lastCall.receipt)) =>
        LET Matching(receipt) ==
                [receipt EXCEPT !.total =
                    Num(receipt.subTotal.v + receipt.taxes.v
                          - NumberOr0(Get(receipt, "orderDiscountAmount")))]
        IN  /\ "total does not match" \in Range(lastCall.result.warnings)
            /\ lastCall.result.valid = ValidateReceipt(Matching(lastCall.receipt)).valid


-----------------------------------------------------------------------------
(* calculateExecutiveRewards applied to receipt sets and cycle starts *)

MaxRewardReceipts == 2

\* A warehouse sale of one item of the given amount on the given day.
DatedRaw(date, amount) ==
    RawReceipt("Sales", date, 1, amount, amount, 0,
               <<RawItem(<<"1", "1", "1">>, amount, Num(1), <<"A", "b">>)>>)

\* Days on and next to the cycle starts of the model.
RewardDates ==
    {<<2023, 2, 28>>, <<2023, 3, 1>>, <<2023, 12, 31>>, <<2024, 1, 1>>,
     <<2024, 2, 28>>, <<2024, 2, 29>>, <<2024, 3, 14>>, <<2024, 3, 15>>,
     <<2024, 12, 30>>, <<2024, 12, 31>>}

\* A gift card sale (department 75) and a travel booking.
GiftCardRaw ==
    [DatedRaw(<<2024, 3, 15>>, 5000) EXCEPT
        !.itemArray = Arr(<<RawItem(<<"7", "5">>, 5000, Num(1), <<"C">>)
                            @@ [itemDepartmentNumber |-> Num(75)]>>)]
TravelRaw == DatedRaw(<<2024, 3, 15>>, 90000) @@ [receiptType |-> Tok("Costco Travel")]

\* The receipts calculateExecutiveRewards is given: normalized receipts.
\* A purchase of 40,000.00 takes a year's reward to the cap with a second.
RewardReceipts ==
    {NormalizeReceipt(r, 0, "file.json") :
        r \in {DatedRaw(date, amount) :
                  date \in RewardDates, amount \in {1999, 4000000}}
              \cup {SaleRaw, RefundRaw, GasRaw, NoDateRaw, GiftCardRaw, TravelRaw}}

\* The options: none, and cycle starts with the day as a number.
RewardOptions ==
    {<<>>} \cup
    {[cycleStartMonth |-> Num(start[1]), cycleStartDay |-> Num(start[2])] :
        start \in {<<1, 1>>, <<3, 15>>, <<2, 29>>, <<12, 31>>, <<2, 30>>}}

InitRewards == AppIdle /\ ItemIdle /\ MergeIdle /\ TotalsIdle

CallCalculateExecutiveRewards ==
    /\ \E batch \in {<<>>} \cup {<<r>> : r \in RewardReceipts},
          options \in RewardOptions :
          /\ Len(receipts) + Len(batch) <= MaxRewardReceipts
          /\ receipts' = receipts \o batch
          /\ stats' = CalculateExecutiveRewards(receipts', options)
          /\ lastCall' = [op |-> "calculateExecutiveRewards", options |-> options]
    /\ UNCHANGED <<filterState, mirror, store, proc, jobs, ingested, overlay>>
    /\ UNCHANGED <<itemVars, mergeVars>>

NextRewards == CallCalculateExecutiveRewards

SpecRewards == InitRewards /\ [][NextRewards]_vars

\* C19: in every result of calculateExecutiveRewards the reward of a cycle
\* year is the smaller of 2% of its subtotal and 1250 dollars, a year with
\* the larger subtotal has no smaller reward, and totalReward is the sum of
\* the rewards.  Subtotals are in cents, rewards in hundredths of a cent.
ClaimC19_RewardIsCappedTwoPercent ==
    lastCall.op = "calculateExecutiveRewards" =>
        LET Holds(byYear) ==
                /\ \A y \in DOMAIN byYear :
                      IF byYear[y].subtotal * 2 <= 1250 * 100 * 100
                      THEN byYear[y].reward = byYear[y].subtotal * 2
                      ELSE byYear[y].reward = 1250 * 100 * 100
                /\ \A y, z \in DOMAIN byYear :
                      byYear[y].subtotal <= byYear[z].subtotal
                          => byYear[y].reward <= byYear[z].reward
                /\ stats.totalReward =
                      SeqSum([i \in 1..Len(Ascending(DOMAIN byYear)) |->
                                 byYear[Ascending(DOMAIN byYear)[i]].reward])
        IN  Holds(stats.byYear)

\* Two purchases of 40,000.00 fall into one cycle year, whose reward is the
\* cap; or into two cycle years, each with its own reward.
WitnessC19 ==
    /\ lastCall.op = "calculateExecutiveRewards"
    /\ Len(receipts) = 2
    /\ \E y \in DOMAIN stats.byYear :
          /\ stats.byYear[y].subtotal = 8000000
          /\ stats.byYear[y].reward = 12500000
          /\ stats.totalReward = 12500000


\* The day after a calendar day.
NextDay(date) ==
    IF date[3] < DaysInMonth(date[1], date[2]) THEN <<date[1], date[2], date[3] + 1>>
    ELSE IF date[2] < 12 THEN <<date[1], date[2] + 1, 1>>
    ELSE <<date[1] + 1, 1, 1>>

\* The cycle year the claim gives a day: the year of the day when it is the
\* month and day of the cycle start, the year before when the next day is,
\* 0 for any other day.
StatedCycleYear(date, month, day) ==
    IF date[2] = month /\ date[3] = day THEN date[1]
    ELSE IF NextDay(date)[2] = month /\ NextDay(date)[3] = day
    THEN NextDay(date)[1] - 1
    ELSE 0

-----------------------------------------------------------------------------
(* getWarehouseStats applied to receipt sets *)

MaxWarehouseReceipts == 3

\* The receipts getWarehouseStats is given: normalized receipts, among them a
\* fill-up, an online order, a receipt with no date and one with no warehouse.
WarehouseReceipts ==
    {NormalizeReceipt(r, 0, "file.json") :
        r \in {SaleRaw, RefundRaw, GasRaw, OnlineRaw, NoDateRaw, NoWarehouseRaw}}

InitWarehouse == AppIdle /\ ItemIdle /\ MergeIdle /\ TotalsIdle

\* getWarehouseStats is called on the receipt set as it is, or extended by one
\* receipt.
CallGetWarehouseStats ==
    /\ \E batch \in {<<>>} \cup {<<r>> : r \in WarehouseReceipts} :
          /\ Len(receipts) + Len(batch) <= MaxWarehouseReceipts
          /\ receipts' = receipts \o batch
          /\ stats' = GetWarehouseStats(receipts')
    /\ UNCHANGED <<appVars, itemVars, mergeVars>>

NextWarehouse == CallGetWarehouseStats

SpecWarehouse == InitWarehouse /\ [][NextWarehouse]_vars

\* C21: for every non-online warehouse group, tripCount is the number of
\* distinct calendar days on which the group has a non-gas receipt, and the
\* receipt count takes its place only when none of the group's receipts has a
\* parseable date.
ClaimC21_TripCountIsVisitDays ==
    stats # Undefined =>
        \A g \in 1..Len(stats.warehouseList) :
            LET group == stats.warehouseList[g]
                members ==
                    SelectSeq(receipts,
                              LAMBDA r : WarehouseKey(r) = group.warehouseNumber)
                visitDays ==
                    {GetReceiptDate(members[i]) :
                        i \in {j \in 1..Len(members) :
                                 /\ ~StatsIsGas(members[j])
                                 /\ GetReceiptDate(members[j]) # 0}}
            IN  ~group.isOnline =>
                    group.tripCount =
                        IF \A i \in 1..Len(members) : GetReceiptDate(members[i]) = 0
                        THEN group.receiptCount
                        ELSE Cardinality(visitDays)


-----------------------------------------------------------------------------
(* calculateTotals: the item counts *)

\* A receipt with the discount lines taken off its item array.
WithoutDiscountLines(receipt) ==
    [receipt EXCEPT !.itemArray = SelectSeq(@, LAMBDA it : ~it.isDiscount)]

\* C22: a discount line adds neither to uniqueItems nor to the purchase count
\* that divides grossSpent in avgPricePerItem: the two are what they are for
\* the same receipts with the discount lines taken off.
ClaimC22_DiscountLinesNotCounted ==
    (stats # Undefined /\ receipts # <<>>) =>
        LET Products(without) ==
                /\ stats.uniqueItems = without.uniqueItems
                /\ stats.avgPricePerItem = without.avgPricePerItem
        IN  Products(CalculateTotals(
                [i \in 1..Len(receipts) |-> WithoutDiscountLines(receipts[i])]))


\* The units of item number n on the receipts: the units bought on non-refund
\* receipts minus the units on refund receipts.
NetUnits(rs, n) ==
    SeqSum([i \in 1..Len(rs) |->
               SeqSum([k \in 1..Len(rs[i].itemArray) |->
                          IF rs[i].itemArray[k].itemNumber # n THEN 0
                          ELSE IF IsRefund(rs[i])
                          THEN 0 - Abs(rs[i].itemArray[k].unit)
                          ELSE rs[i].itemArray[k].unit])])

\* C23: netUniqueItems is the number of item numbers whose net quantity over
\* the receipt set, units bought minus units refunded, is greater than zero.
ClaimC23_NetUniqueItemsCountsUnits ==
    (stats # Undefined /\ receipts # <<>>) =>
        stats.netUniqueItems =
            Cardinality({n \in UNION {{receipts[i].itemArray[k].itemNumber :
                                           k \in 1..Len(receipts[i].itemArray)} :
                                         i \in 1..Len(receipts)} \ {<<>>} :
                            NetUnits(receipts, n) > 0})


-----------------------------------------------------------------------------
(* normalizeReceipt applied to raw receipts, and again to their _original *)

MaxIndex == 2

\* The raw receipts normalizeReceipt is given.
NormalizeInputs ==
    RawCatalogue \cup {TwoUnitSaleRaw, OneUnitRefundRaw, NoDateRaw, NoWarehouseRaw,
                       FreeOrderRaw}

\* The raw receipt with its item array emptied.
OriginalWithoutItems(receipt) ==
    [f \in DOMAIN receipt._original |->
        IF f = "itemArray" THEN Arr(<<>>) ELSE receipt._original[f]]

\* _original: the raw receipt a normalized receipt carries.
OriginalOf(receipt) == receipt._original

InitNormalize == AppIdle /\ ItemIdle /\ MergeIdle /\ TotalsIdle

\* normalizeReceipt(receipt, index, sourceFile) on a raw receipt of a file.
CallNormalizeReceipt ==
    /\ \E raw \in NormalizeInputs, index \in 0..MaxIndex,
          sourceFile \in {"a.json", "b.json"} :
          /\ normalized' = NormalizeReceipt(raw, index, sourceFile)
          /\ lastCall' = [op |-> "normalizeReceipt", index |-> index,
                          sourceFile |-> sourceFile]
    /\ UNCHANGED <<filterState, mirror, store, proc, jobs, ingested, overlay>>
    /\ UNCHANGED <<item, totalsVars, mergeVars>>

\* normalizeReceipt again, on the _original of the receipt it returned, with
\* the same index and source file.
CallNormalizeOriginal ==
    /\ normalized # Undefined
    /\ normalized' = NormalizeReceipt(OriginalOf(normalized), lastCall.index,
                                      lastCall.sourceFile)
    /\ lastCall' = [lastCall EXCEPT !.op = "normalizeReceipt of _original"]
    /\ UNCHANGED <<filterState, mirror, store, proc, jobs, ingested, overlay>>
    /\ UNCHANGED <<item, totalsVars, mergeVars>>

NextNormalize == CallNormalizeReceipt \/ CallNormalizeOriginal

SpecNormalize == InitNormalize /\ [][NextNormalize]_vars

-----------------------------------------------------------------------------
(* Ingestions one after another: the receipts the store holds *)

\* C25: after any sequence of ingestions with no clear in between, the store
\* holds at most one receipt per dedup key (transaction barcode, else id).
ClaimC25_StoreOnePerKey ==
    \A i, j \in 1..Len(store.receipts) :
        i # j => DedupKey(store.receipts[i]) # DedupKey(store.receipts[j])


-----------------------------------------------------------------------------
(* mergeReceipts: receipts that are not the same transaction *)

\* C26: two receipts without a transaction barcode that differ in warehouse
\* number, transaction date or total get different ids, and both survive the
\* merge.
ClaimC26_DifferentReceiptsSurvive ==
    LET all == Flatten(receiptsArray)
        NoBarcode(r) == ~Truthy(Get(r._original, "transactionBarcode"))
        Differ(r, q) ==
            \/ r.warehouseNumber # q.warehouseNumber
            \/ r.transactionDate # q.transactionDate
            \/ r.total # q.total
        Survives(r) ==
            \E k \in 1..Len(merged) :
                /\ merged[k].id = r.id
                /\ merged[k].warehouseNumber = r.warehouseNumber
                /\ merged[k].transactionDate = r.transactionDate
                /\ merged[k].total = r.total
    IN  \A i, j \in 1..Len(all) :
            (NoBarcode(all[i]) /\ NoBarcode(all[j]) /\ Differ(all[i], all[j])) =>
                /\ all[i].id # all[j].id
                /\ Survives(all[i])
                /\ Survives(all[j])


-----------------------------------------------------------------------------
(* FilterManager: the preset and the date range *)

\* C27: in every reachable filter state the preset is one of all, ytd,
\* last12, custom; all implies both date bounds are null; ytd and last12
\* imply both bounds are set with start <= end; setPreset with an unknown
\* name changes nothing and emits no event.
ClaimC27_PresetAgreesWithRange ==
    /\ [](/\ filterState.currentPreset \in {"all", "ytd", "last12", "custom"}
          /\ filterState.currentPreset = "all" =>
                filterState.dateRange = [start |-> 0, end |-> 0]
          /\ filterState.currentPreset \in {"ytd", "last12"} =>
                /\ filterState.dateRange.start # 0
                /\ filterState.dateRange.end # 0
                /\ filterState.dateRange.start <= filterState.dateRange.end)
    /\ [][(lastCall'.op = "setPreset"
             /\ lastCall'.preset \notin {"all", "ytd", "last12", "custom"}) =>
            (filterState' = filterState /\ lastCall'.events = <<>>)]_vars

\* setPreset was called with an unknown name while the preset was ytd, with
\* other filters set.
WitnessC27 ==
    /\ lastCall.op = "setPreset"
    /\ lastCall.preset = "weekly"
    /\ filterState.currentPreset = "ytd"
    /\ filterState.dateRange.start = 20240101
    /\ filterState.channel = Tok("online")


-----------------------------------------------------------------------------
(* FilterManager: the channel filter alone *)

\* C28: with all other filters inactive every receipt of the store is
\* returned under exactly one of the channel values warehouse and online.
ClaimC28_ChannelPartitions ==
    LET Under(channel) ==
            ApplyFilters(SetChannel(InitialFilterState, channel), GetReceipts(store))
        Split(all, warehouse, online) ==
            /\ Range(warehouse) \cap Range(online) = {}
            /\ Range(warehouse) \cup Range(online) = Range(all)
            /\ Len(warehouse) + Len(online) = Len(all)
    IN  Split(GetReceipts(store), Under(Tok("warehouse")), Under(Tok("online")))


-----------------------------------------------------------------------------
(* Ingestions whose reads settle: the loading overlay *)

\* The selections of the ingestions followed to their end: an export, a file
\* that is no JSON, two exports together, and two selections that are refused.
FewSelections == {<<FileA>>, <<FileBroken>>, <<FileA, FileB>>, <<>>, <<FileText>>}

SelectionRefusedOfFew == SelectionRefused /\ lastCall'.files \in FewSelections

SelectionAcceptedOfFew == SelectionAccepted /\ lastCall'.files \in FewSelections

NextIngestFair ==
    \/ SelectionRefusedOfFew
    \/ SelectionAcceptedOfFew
    \/ ReadSettles
    \/ LastReadSettlesAndLoads
    \/ LastReadSettlesAndThrows

\* Every read a FileReader has started ends in load or error, and the
\* continuation of handleFileProcessing runs once Promise.all has resolved.
SpecIngestFair ==
    /\ InitIngest
    /\ [][NextIngestFair]_vars
    /\ WF_vars(ReadSettles)
    /\ WF_vars(LastReadSettlesAndLoads)
    /\ WF_vars(LastReadSettlesAndThrows)

\* C29: every ingestion that shows the loading overlay eventually hides it:
\* while an ingestion is in flight the overlay is shown or another ingestion
\* has hidden it, every ingestion in flight ends, and the step that ends an
\* ingestion, on the success path or on an abort path, leaves the overlay
\* hidden.
ClaimC29_OverlayEventuallyHidden ==
    /\ (jobs # <<>>) ~> (jobs = <<>> /\ ~overlay)
    /\ overlay ~> ~overlay
    /\ [][Len(jobs') < Len(jobs) => ~overlay']_vars
    /\ [][Len(jobs') > Len(jobs) => overlay']_vars

\* An ingestion has ended on an abort path and hidden the overlay while
\* another ingestion is still reading.
WitnessC29 ==
    /\ lastCall.op = "handleFileProcessing"
    /\ lastCall.thrown # ""
    /\ ~overlay
    /\ jobs # <<>>


-----------------------------------------------------------------------------
(* getMonthlySpending applied to receipt sets *)

MaxMonthlyReceipts == 3

InitMonthly == AppIdle /\ ItemIdle /\ MergeIdle /\ TotalsIdle

\* getMonthlySpending is called on the receipt set as it is, or extended by
\* one receipt.
CallGetMonthlySpending ==
    /\ \E batch \in {<<>>} \cup {<<r>> : r \in TotalsReceipts} :
          /\ Len(receipts) + Len(batch) <= MaxMonthlyReceipts
          /\ receipts' = receipts \o batch
          /\ stats' = GetMonthlySpending(receipts')
    /\ UNCHANGED <<appVars, itemVars, mergeVars>>

NextMonthly == CallGetMonthlySpending

SpecMonthly == InitMonthly /\ [][NextMonthly]_vars

\* C30: for a receipt set in which every receipt has a transaction date, the
\* monthly totals add up to netSpent of calculateTotals, and the monthly taxes
\* and savings to totalTaxes and totalSavings.
ClaimC30_MonthsAddUpToTotals ==
    (/\ stats # Undefined
     /\ \A i \in 1..Len(receipts) : receipts[i].transactionDateTime # 0) =>
        LET Agree(totals) ==
                /\ SeqSum([k \in 1..Len(stats) |-> stats[k].total]) = totals.netSpent
                /\ SeqSum([k \in 1..Len(stats) |-> stats[k].taxes]) = totals.totalTaxes
                /\ SeqSum([k \in 1..Len(stats) |-> stats[k].savings])
                     = totals.totalSavings
        IN  Agree(CalculateTotals(receipts))

=============================================================================
